---- MODULE Spec2Model ----
(***************************************************************************)
(* Model of the library (aedificium) simulator and of the exploration      *)
(* relay of icfpc-2025-visualizer.                                         *)
(*                                                                         *)
(*   - SeededRandom, generateBuilding, simulateExploration (whole-result   *)
(*     page) and simulateExplorationSteps (stepwise page);                 *)
(*   - exploreAedificium, the callable function relaying /select and       *)
(*     /explore to the contest API.                                        *)
(*                                                                         *)
(* JavaScript numbers are IEEE-754 doubles; the generator's product        *)
(* exceeds 2^53, so its arithmetic is modelled on limb sequences with      *)
(* round-to-nearest-even at 53 significant bits.                           *)
(***************************************************************************)
EXTENDS Integers, Sequences, FiniteSets, TLC

(***************************************************************************)
(* Bounds of the model.                                                    *)
(***************************************************************************)
MaxRooms == 3
MaxSeed == 1
MaxPlanLen == 3
MaxCalls == 2
MaxPlans == 2
MaxPlanStrLen == 2

(***************************************************************************)
(* Double-precision arithmetic on non-negative integers, held as           *)
(* little-endian sequences of limbs in base 2^15 (<< >> is zero).          *)
(***************************************************************************)
LimbBase == 32768

LimbBits == 15

MantissaBits == 53

\* F applied to the value of v, with v evaluated a single time
Once(v, F(_)) == CHOOSE r \in {F(a) : a \in {v}} : TRUE

RECURSIVE Pow2(_)
Pow2(k) == IF k = 0 THEN 1 ELSE 2 * Pow2(k - 1)

RECURSIVE Norm(_)
Norm(x) ==
    IF x = << >> THEN << >>
    ELSE IF x[Len(x)] = 0 THEN Norm(SubSeq(x, 1, Len(x) - 1))
    ELSE x

RECURSIVE ToLimbs(_)
ToLimbs(n) ==
    IF n = 0 THEN << >> ELSE <<n % LimbBase>> \o ToLimbs(n \div LimbBase)

RECURSIVE AddCarry(_, _, _)
AddCarry(x, y, c) ==
    IF x = << >> /\ y = << >>
    THEN IF c = 0 THEN << >> ELSE <<c>>
    ELSE LET a == IF x = << >> THEN 0 ELSE Head(x)
             b == IF y = << >> THEN 0 ELSE Head(y)
             s == a + b + c
         IN  <<s % LimbBase>>
             \o AddCarry(IF x = << >> THEN << >> ELSE Tail(x),
                         IF y = << >> THEN << >> ELSE Tail(y),
                         s \div LimbBase)

BigAdd(x, y) ==
    Once(x, LAMBDA a : Once(y, LAMBDA b : AddCarry(a, b, 0)))

\* x - y for x >= y
RECURSIVE SubBorrow(_, _, _)
SubBorrow(x, y, b) ==
    IF x = << >> THEN << >>
    ELSE LET s == Head(x) - (IF y = << >> THEN 0 ELSE Head(y)) - b
         IN  <<s % LimbBase>>
             \o SubBorrow(Tail(x), IF y = << >> THEN << >> ELSE Tail(y),
                          IF s < 0 THEN 1 ELSE 0)

BigSub(x, y) ==
    Once(x, LAMBDA a : Once(y, LAMBDA b : Norm(SubBorrow(a, b, 0))))

RECURSIVE MulLimb(_, _, _)
MulLimb(x, d, c) ==
    IF x = << >>
    THEN IF c = 0 THEN << >> ELSE <<c>>
    ELSE LET s == Head(x) * d + c
         IN  <<s % LimbBase>> \o MulLimb(Tail(x), d, s \div LimbBase)

ShiftLimb(x) == IF x = << >> THEN << >> ELSE <<0>> \o x

RECURSIVE BigMul(_, _)
BigMul(x, y) ==
    Once(x, LAMBDA a : Once(y, LAMBDA b :
        IF b = << >> \/ a = << >> THEN << >>
        ELSE BigAdd(Norm(MulLimb(a, Head(b), 0)),
                    ShiftLimb(BigMul(a, Tail(b))))))

RECURSIVE BitLenSmall(_)
BitLenSmall(n) == IF n = 0 THEN 0 ELSE 1 + BitLenSmall(n \div 2)

BitLen(x) ==
    IF x = << >> THEN 0
    ELSE LimbBits * (Len(x) - 1) + BitLenSmall(x[Len(x)])

Bit(x, i) ==
    LET w == (i \div LimbBits) + 1
    IN  IF w > Len(x) THEN 0 ELSE (x[w] \div Pow2(i % LimbBits)) % 2

\* x with the bits below position k cleared
TruncLow(x, k) ==
    LET w == k \div LimbBits
        b == Pow2(k % LimbBits)
    IN  [i \in 1..Len(x) |->
            IF i <= w THEN 0
            ELSE IF i = w + 1 THEN (x[i] \div b) * b
            ELSE x[i]]

BigPow2(k) ==
    [i \in 1..((k \div LimbBits) + 1) |->
        IF i = (k \div LimbBits) + 1 THEN Pow2(k % LimbBits) ELSE 0]

\* nearest double of the integer x, ties to even
RoundDouble(x) ==
    Once(x, LAMBDA v :
        LET k == BitLen(v) - MantissaBits
        IN  IF k <= 0 THEN v
            ELSE LET sticky == \E i \in 0..(k - 2) : Bit(v, i) = 1
                     up == Bit(v, k - 1) = 1 /\ (sticky \/ Bit(v, k) = 1)
                     t == TruncLow(v, k)
                 IN  IF up THEN BigAdd(t, BigPow2(k)) ELSE Norm(t))

\* x mod 2^31 as an integer
Mod31(x) ==
    Once(x, LAMBDA v :
        (IF Len(v) >= 1 THEN v[1] ELSE 0)
        + (IF Len(v) >= 2 THEN v[2] * LimbBase ELSE 0)
        + (IF Len(v) >= 3 THEN (v[3] % 2) * (LimbBase * LimbBase) ELSE 0))

Abs(n) == IF n < 0 THEN 0 - n ELSE n

(***************************************************************************)
(* SeededRandom                                                            *)
(***************************************************************************)
Multiplier == ToLimbs(1103515245)

Increment == ToLimbs(12345)

\* this.seed = (this.seed * 1103515245 + 12345) % 2 ** 31
\* (the remainder takes the sign of the dividend)
NextSeed(s) ==
    Once(s, LAMBDA v :
        LET p == RoundDouble(BigMul(ToLimbs(Abs(v)), Multiplier))
        IN  IF v >= 0
            THEN Mod31(RoundDouble(BigAdd(p, Increment)))
            ELSE 0 - Mod31(RoundDouble(BigSub(p, Increment))))

\* Math.floor((seed / 2 ** 31) * max), for the seed left by next()
FloorScaled(s, max) ==
    LET hi == s \div 65536
        lo == s % 65536
    IN  (hi * max + ((lo * max) \div 65536)) \div LimbBase

\* Math.floor(this.next() * max): the new generator state and the integer
NextInt(s, max) ==
    Once(NextSeed(s), LAMBDA n : [seed |-> n, value |-> FloorScaled(n, max)])

(***************************************************************************)
(* State                                                                   *)
(***************************************************************************)
VARIABLES
    variant,        \* "whole": the whole-result page, "steps": the stepwise page
    numRooms,       \* generateBuilding argument
    seed,           \* generateBuilding argument
    pc,             \* position inside generateBuilding
    rng,            \* SeededRandom.seed of the running call
    rooms,          \* rooms of the building under construction / returned
    visited,        \* spanning tree: visited rooms
    queue,          \* spanning tree: frontier
    i,              \* loop counter of the allocation and augmentation loops
    roomId,         \* closure loop: room
    door,           \* closure loop: door
    attempts,       \* closure loop: draws made for the current door
    calls,          \* number of generateBuilding calls started
    firstResult,    \* outcome of the previous call with the same arguments
    routePlan,      \* simulator argument: the plan, a sequence of characters
    walkPc,         \* position inside the walk simulator
    pos,            \* index of the next plan character
    currentRoom,    \* simulator local
    result,         \* simulateExploration: labels recorded so far
    steps,          \* simulateExplorationSteps: steps recorded so far
    firstWalk,      \* outcome of the previous walk with the same arguments
    data,           \* relay: request.data of each invocation
    relayPc,        \* relay: position of each invocation
    validPlans,     \* relay: filtered plans of each invocation
    requests,       \* relay: requests issued to the contest API, in order
    selectStatus,   \* relay: how the /select fetch of each invocation ended
    exploreStatus,  \* relay: how the /explore fetch of each invocation ended
    remotePayload,  \* relay: body the contest API sent for /explore
    returned,       \* relay: value returned to the caller
    errors,         \* relay: errors thrown to the caller
    remoteSelected, \* contest API: problem currently selected for the team
    answeredFor,    \* contest API: problem each /explore was answered for
    conns,          \* visualization: last evaluation of the connections memo
    toolList,       \* home page: the entries of the rendered tool list
    roomPositions,  \* visualization: centre of each room's hexagon
    draggedRoom,    \* visualization: the room being dragged, or Null
    dragOffset,     \* visualization: pointer position relative to the centre
    pagePlan,       \* simulator page: the routePlan signal, the text typed
    pageSteps,      \* simulator page: the explorationSteps signal
    pageIndex,      \* simulator page: the currentStepIndex signal
    explorePlans,   \* explore page: the plans signal, the text typed
    exploreProblem, \* explore page: the problemName signal
    exploreResult,  \* explore page: the result signal, NoPayload for null
    exploreLoading, \* explore page: the loading signal
    exploreError,   \* explore page: the error signal
    explorePc,      \* explore page: position inside onSubmitExplore
    exploreInv      \* explore page: the relay invocation awaited

builderVars ==
    <<variant, numRooms, seed, pc, rng, rooms, visited, queue, i, roomId,
      door, attempts, calls, firstResult>>

walkVars == <<routePlan, walkPc, pos, currentRoom, result, steps, firstWalk>>

relayVars ==
    <<data, relayPc, validPlans, requests, selectStatus, exploreStatus,
      remotePayload, returned, errors, remoteSelected, answeredFor>>

pageVars == <<pagePlan, pageSteps, pageIndex>>

exploreVars ==
    <<explorePlans, exploreProblem, exploreResult, exploreLoading,
      exploreError, explorePc, exploreInv>>

viewVars ==
    <<conns, toolList, roomPositions, draggedRoom, dragOffset, pageVars,
      exploreVars>>

vars == <<builderVars, walkVars, relayVars, viewVars>>

NumDoors == 6

NumLabels == 4

\* a closure loop that gives up after ten draws
MaxAttemptsTen == 2 * 5

MaxAttempts == 20

Doors == 0..(NumDoors - 1)

Seeds == ((0 - MaxSeed)..MaxSeed) \cup {12, 42, 12345, 2147483647}

Unassigned == [toRoom |-> -1, toDoor |-> -1]

NoRooms == [r \in {} |-> Unassigned]

(***************************************************************************)
(* generateBuilding                                                        *)
(***************************************************************************)
\* {id, label, doors: new Array(6).fill(null).map(() => ({toRoom: -1, toDoor: -1}))}
NewRoom(id, label) ==
    [id |-> id, label |-> label, doors |-> [d \in Doors |-> Unassigned]]

\* rooms[roomId].doors[doorId] is an object (reading .toRoom does not throw)
DoorDefined(rs, r, d) == r \in DOMAIN rs /\ d \in DOMAIN rs[r].doors

\* a test that takes every door for available
IsDoorAvailableAlways(rs, r, d) == TRUE

IsDoorAvailable(rs, r, d) == rs[r].doors[d].toRoom = -1

\* connectRooms without the assignment of the target's door
ConnectOneWay(rs, fromRoom, fromDoor, toRoom, toDoor) ==
    [rs EXCEPT ![fromRoom].doors[fromDoor] =
        [toRoom |-> toRoom, toDoor |-> toDoor]]

ConnectRooms(rs, fromRoom, fromDoor, toRoom, toDoor) ==
    LET fwd == [rs EXCEPT ![fromRoom].doors[fromDoor] =
                    [toRoom |-> toRoom, toDoor |-> toDoor]]
    IN  IF fromRoom # toRoom \/ fromDoor # toDoor
        THEN [fwd EXCEPT ![toRoom].doors[toDoor] =
                    [toRoom |-> fromRoom, toDoor |-> fromDoor]]
        ELSE fwd

\* rooms[r].doors.findIndex((_door, index) => isDoorAvailable(r, index))
\* a search that returns the highest-index available door
FindLastAvailableDoor(rs, r) ==
    LET free == {d \in DOMAIN rs[r].doors : IsDoorAvailable(rs, r, d)}
    IN  IF free = {} THEN -1 ELSE CHOOSE d \in free : \A e \in free : d >= e

FindAvailableDoor(rs, r) ==
    LET free == {d \in DOMAIN rs[r].doors : IsDoorAvailable(rs, r, d)}
    IN  IF free = {} THEN -1 ELSE CHOOSE d \in free : \A e \in free : d <= e

\* a generator shared by all calls instead of one seeded per call
SharedSeededRandom == rng

\* new SeededRandom(seed)
NewSeededRandom == seed

Result == [outcome |-> pc, rooms |-> rooms]

Call ==
    /\ pc \in {"idle", "built", "thrown"}
    /\ walkPc = "idle"
    /\ calls < MaxCalls
    /\ calls' = calls + 1
    /\ firstResult' = IF calls = 0 THEN firstResult ELSE Result
    /\ rng' = NewSeededRandom
    /\ rooms' = NoRooms
    /\ i' = 0
    /\ pc' = "alloc"
    /\ UNCHANGED <<variant, numRooms, seed, visited, queue, roomId, door,
                   attempts>>
    /\ UNCHANGED <<walkVars, relayVars, viewVars>>

\* label: rng.nextInt(4) on the whole-result page, i % 4 on the stepwise page
AllocRoom ==
    /\ pc = "alloc"
    /\ i < numRooms
    /\ \E draw \in {NextInt(rng, NumLabels)} :
       LET label == IF variant = "whole" THEN draw.value ELSE i % NumLabels
       IN  /\ rooms' = [r \in 0..i |->
                            IF r = i THEN NewRoom(i, label) ELSE rooms[r]]
           /\ rng' = IF variant = "whole" THEN draw.seed ELSE rng
    /\ i' = i + 1
    /\ UNCHANGED <<variant, numRooms, seed, pc, visited, queue, roomId, door,
                   attempts, calls, firstResult>>
    /\ UNCHANGED <<walkVars, relayVars, viewVars>>

AllocDone ==
    /\ pc = "alloc"
    /\ i >= numRooms
    /\ visited' = {0}
    /\ queue' = <<0>>
    /\ pc' = "tree"
    /\ UNCHANGED <<variant, numRooms, seed, rng, rooms, i, roomId, door,
                   attempts, calls, firstResult>>
    /\ UNCHANGED <<walkVars, relayVars, viewVars>>

\* the while loop giving up one room early
TreeStopsEarly == Len(queue) > 0 /\ Cardinality(visited) < numRooms - 1

TreeContinues == Len(queue) > 0 /\ Cardinality(visited) < numRooms

\* the rooms the inner for loop can link currentRoom to
TreeTargets(frontRoom) ==
    {t \in 0..(numRooms - 1) :
        /\ t \notin visited
        /\ FindAvailableDoor(rooms, frontRoom) # -1
        /\ FindAvailableDoor(rooms, t) # -1}

TreeStep ==
    /\ pc = "tree"
    /\ TreeContinues
    /\ LET frontRoom == Head(queue)
           targets == TreeTargets(frontRoom)
       IN  IF targets = {}
           THEN /\ queue' = Tail(queue)
                /\ UNCHANGED <<rooms, visited>>
           ELSE LET targetRoom == CHOOSE t \in targets : \A u \in targets : t <= u
                IN  /\ rooms' = ConnectRooms(rooms, frontRoom,
                                    FindAvailableDoor(rooms, frontRoom),
                                    targetRoom,
                                    FindAvailableDoor(rooms, targetRoom))
                    /\ visited' = visited \cup {targetRoom}
                    /\ queue' = Append(Tail(queue), targetRoom)
    /\ UNCHANGED <<variant, numRooms, seed, pc, rng, i, roomId, door, attempts,
                   calls, firstResult>>
    /\ UNCHANGED <<walkVars, relayVars, viewVars>>

TreeDone ==
    /\ pc = "tree"
    /\ ~TreeContinues
    /\ i' = 0
    /\ pc' = "augment"
    /\ UNCHANGED <<variant, numRooms, seed, rng, rooms, visited, queue, roomId,
                   door, attempts, calls, firstResult>>
    /\ UNCHANGED <<walkVars, relayVars, viewVars>>

AugmentStep ==
    /\ pc = "augment"
    /\ i < numRooms * 2
    /\ \E room1 \in {NextInt(rng, numRooms)} :
       \E room2 \in {NextInt(room1.seed, numRooms)} :
       \E door1 \in {NextInt(room2.seed, NumDoors)} :
       \E door2 \in {NextInt(door1.seed, NumDoors)} :
           /\ rng' = door2.seed
           /\ IF ~DoorDefined(rooms, room1.value, door1.value)
              THEN pc' = "thrown" /\ rooms' = rooms
              ELSE IF ~IsDoorAvailable(rooms, room1.value, door1.value)
              THEN pc' = pc /\ rooms' = rooms
              ELSE IF ~DoorDefined(rooms, room2.value, door2.value)
              THEN pc' = "thrown" /\ rooms' = rooms
              ELSE IF IsDoorAvailable(rooms, room2.value, door2.value)
              THEN /\ pc' = pc
                   /\ rooms' = ConnectRooms(rooms, room1.value, door1.value,
                                            room2.value, door2.value)
              ELSE pc' = pc /\ rooms' = rooms
    /\ i' = i + 1
    /\ UNCHANGED <<variant, numRooms, seed, visited, queue, roomId, door,
                   attempts, calls, firstResult>>
    /\ UNCHANGED <<walkVars, relayVars, viewVars>>

AugmentDone ==
    /\ pc = "augment"
    /\ i >= numRooms * 2
    /\ roomId' = 0
    /\ door' = 0
    /\ attempts' = 0
    /\ pc' = "closure"
    /\ UNCHANGED <<variant, numRooms, seed, rng, rooms, visited, queue, i,
                   calls, firstResult>>
    /\ UNCHANGED <<walkVars, relayVars, viewVars>>

\* for (door...) door++ and for (roomId...) roomId++
AdvanceDoor ==
    /\ door' = IF door + 1 < NumDoors THEN door + 1 ELSE 0
    /\ roomId' = IF door + 1 < NumDoors THEN roomId ELSE roomId + 1
    /\ attempts' = 0

\* the outer closure loop leaving out the last room
ClosureFinishedEarly == roomId >= numRooms - 1

\* roomId < numRooms no longer holds
ClosureFinished == roomId >= numRooms

ClosureSkip ==
    /\ pc = "closure"
    /\ ~ClosureFinished
    /\ ~IsDoorAvailable(rooms, roomId, door)
    /\ AdvanceDoor
    /\ UNCHANGED <<variant, numRooms, seed, pc, rng, rooms, visited, queue, i,
                   calls, firstResult>>
    /\ UNCHANGED <<walkVars, relayVars, viewVars>>

\* one pass of the do ... while body and its loop condition
ClosureDraw ==
    /\ pc = "closure"
    /\ ~ClosureFinished
    /\ IsDoorAvailable(rooms, roomId, door)
    /\ \E targetRoom \in {NextInt(rng, numRooms)} :
       \E targetDoor \in {NextInt(targetRoom.seed, NumDoors)} :
           /\ rng' = targetDoor.seed
           /\ IF attempts + 1 > MaxAttempts
              THEN /\ rooms' = ConnectRooms(rooms, roomId, door, roomId, door)
                   /\ AdvanceDoor
                   /\ pc' = pc
              ELSE IF ~DoorDefined(rooms, targetRoom.value, targetDoor.value)
              THEN /\ pc' = "thrown"
                   /\ attempts' = attempts + 1
                   /\ UNCHANGED <<rooms, roomId, door>>
              ELSE IF /\ ~IsDoorAvailable(rooms, targetRoom.value,
                                          targetDoor.value)
                      /\ ~(targetRoom.value = roomId /\ targetDoor.value = door)
              THEN /\ attempts' = attempts + 1
                   /\ UNCHANGED <<rooms, roomId, door, pc>>
              ELSE /\ rooms' = ConnectRooms(rooms, roomId, door,
                                            targetRoom.value, targetDoor.value)
                   /\ AdvanceDoor
                   /\ pc' = pc
    /\ UNCHANGED <<variant, numRooms, seed, visited, queue, i, calls,
                   firstResult>>
    /\ UNCHANGED <<walkVars, relayVars, viewVars>>

\* return {rooms, startingRoom: 0}
Return ==
    /\ pc = "closure"
    /\ ClosureFinished
    /\ pc' = "built"
    /\ UNCHANGED <<variant, numRooms, seed, rng, rooms, visited, queue, i,
                   roomId, door, attempts, calls, firstResult>>
    /\ UNCHANGED <<walkVars, relayVars, viewVars>>

\* a builder that names the index after the last room
StartingRoomPastEnd == numRooms

StartingRoom == 0

(***************************************************************************)
(* simulateExploration / simulateExplorationSteps                          *)
(***************************************************************************)
PlanChars == {"0", "1", "5", "7", "a"}

RECURSIVE StringsUpTo(_, _)
StringsUpTo(chars, n) ==
    IF n = 0 THEN {<< >>}
    ELSE LET shorter == StringsUpTo(chars, n - 1)
         IN  shorter \cup {Append(w, c) : w \in shorter, c \in chars}

Plans == StringsUpTo(PlanChars, MaxPlanLen)

DigitValue ==
    [c \in {"0", "1", "2", "3", "4", "5", "6", "7", "8", "9"} |->
        CASE c = "0" -> 0 [] c = "1" -> 1 [] c = "2" -> 2 [] c = "3" -> 3
          [] c = "4" -> 4 [] c = "5" -> 5 [] c = "6" -> 6 [] c = "7" -> 7
          [] c = "8" -> 8 [] c = "9" -> 9]

\* Number.parseInt(doorChar, 10) of one character: NaN unless it is a digit
ParseInt(c) ==
    IF c \in DOMAIN DigitValue
    THEN [nan |-> FALSE, value |-> DigitValue[c]]
    ELSE [nan |-> TRUE, value |-> 0]

\* door < 0 || door > 5: both comparisons are false for NaN
IsSkipped(d) == ~d.nan /\ (d.value < 0 \/ d.value > 5)

\* a walk that never leaves its room
NextRoomStay(rs, room, d) == room

\* a move that never tests the door for the unassigned sentinel
NextRoomUnchecked(rs, room, d) == rs[room].doors[d].toRoom

\* the room behind door d, or the same room when the door is unassigned
NextRoom(rs, room, d) ==
    LET doorConnection == rs[room].doors[d]
    IN  IF doorConnection.toRoom # -1 THEN doorConnection.toRoom ELSE room

NoState == [roomId |-> -1, label |-> -1, doorTaken |-> -1]

NoWalk == [outcome |-> "none", result |-> << >>, steps |-> << >>]

\* a simulator that goes on from the room the previous walk ended in
InitialRoomResumed == currentRoom

\* let currentRoom = building.startingRoom
InitialRoom == StartingRoom

\* the simulator up to its loop, called with the plan
Simulate(plan) ==
    /\ routePlan' = plan
    /\ pos' = 0
    /\ currentRoom' = InitialRoom
    /\ IF InitialRoom \notin DOMAIN rooms
       THEN /\ walkPc' = "thrown"
            /\ UNCHANGED <<result, steps>>
       ELSE /\ walkPc' = "running"
            /\ result' = IF variant = "whole"
                         THEN <<rooms[InitialRoom].label>> ELSE << >>
            /\ steps' = IF variant = "steps"
                        THEN <<[currentState |->
                                    [roomId |-> InitialRoom,
                                     label |-> rooms[InitialRoom].label],
                                previousState |-> NoState,
                                stepIndex |-> 0,
                                totalSteps |-> Len(plan) + 1]>>
                        ELSE << >>
    /\ UNCHANGED <<builderVars, relayVars, viewVars>>

SimulateStart ==
    /\ pc = "built"
    /\ walkPc = "idle"
    /\ \E plan \in Plans : Simulate(plan)
    /\ UNCHANGED firstWalk

\* the simulator is called once more with the same maze and plan
SimulateAgain ==
    /\ pc = "built"
    /\ walkPc \in {"returned", "thrown"}
    /\ firstWalk.outcome = "none"
    /\ firstWalk' = [outcome |-> walkPc, result |-> result, steps |-> steps]
    /\ Simulate(routePlan)

\* one pass of the loop over the plan's characters
WalkStep ==
    /\ walkPc = "running"
    /\ pos < Len(routePlan)
    /\ pos' = pos + 1
    /\ LET d == ParseInt(routePlan[pos + 1])
       IN  IF IsSkipped(d)
           THEN UNCHANGED <<walkPc, currentRoom, result, steps>>
           ELSE IF d.nan \/ d.value \notin DOMAIN rooms[currentRoom].doors
           THEN /\ walkPc' = "thrown"
                /\ UNCHANGED <<currentRoom, result, steps>>
           ELSE LET nextRoom == NextRoom(rooms, currentRoom, d.value)
                IN  /\ currentRoom' = nextRoom
                    /\ IF nextRoom \notin DOMAIN rooms
                       THEN /\ walkPc' = "thrown"
                            /\ UNCHANGED <<result, steps>>
                       ELSE /\ walkPc' = walkPc
                            /\ result' =
                                 IF variant = "whole"
                                 THEN Append(result, rooms[nextRoom].label)
                                 ELSE result
                            /\ steps' =
                                 IF variant = "steps"
                                 THEN Append(steps,
                                        [currentState |->
                                            [roomId |-> nextRoom,
                                             label |-> rooms[nextRoom].label],
                                         previousState |->
                                            [roomId |-> currentRoom,
                                             label |-> rooms[currentRoom].label,
                                             doorTaken |-> d.value],
                                         stepIndex |-> pos + 1,
                                         totalSteps |-> Len(routePlan) + 1])
                                 ELSE steps
    /\ UNCHANGED <<routePlan, firstWalk>>
    /\ UNCHANGED <<builderVars, relayVars, viewVars>>

WalkReturn ==
    /\ walkPc = "running"
    /\ pos >= Len(routePlan)
    /\ walkPc' = "returned"
    /\ UNCHANGED <<routePlan, pos, currentRoom, result, steps, firstWalk>>
    /\ UNCHANGED <<builderVars, relayVars, viewVars>>

(***************************************************************************)
(* exploreAedificium                                                       *)
(***************************************************************************)
Inv == {1, 2}

TEAM_ID == "TEAM_ID"

DefaultProblemName == "probatio"

Undefined == "undefined"

RelayChars == {"5", "6", " "}

Whitespace == {" "}

DoorDigits == {"0", "1", "2", "3", "4", "5"}

\* the entries a plans array can hold: strings, and one value that is no string
PlanItems ==
    {[type |-> "string", chars |-> w] : w \in StringsUpTo(RelayChars, MaxPlanStrLen)}
    \cup {[type |-> "number", chars |-> << >>]}

RECURSIVE ArraysUpTo(_, _)
ArraysUpTo(items, n) ==
    IF n = 0 THEN {<< >>}
    ELSE LET shorter == ArraysUpTo(items, n - 1)
         IN  shorter \cup {Append(a, x) : a \in shorter, x \in items}

\* request.data.plans: absent, a value that is not an array, or an array
PlansValues ==
    {[type |-> "undefined", items |-> << >>], [type |-> "string", items |-> << >>]}
    \cup {[type |-> "array", items |-> a] : a \in ArraysUpTo(PlanItems, MaxPlans)}

RequestData ==
    {[plans |-> p, problemName |-> n] :
        p \in PlansValues, n \in {Undefined, "primus"}}

RECURSIVE TrimStart(_)
TrimStart(w) ==
    IF w # << >> /\ Head(w) \in Whitespace THEN TrimStart(Tail(w)) ELSE w

RECURSIVE TrimEnd(_)
TrimEnd(w) ==
    IF w # << >> /\ w[Len(w)] \in Whitespace
    THEN TrimEnd(SubSeq(w, 1, Len(w) - 1)) ELSE w

\* String.prototype.trim
Trim(w) == TrimEnd(TrimStart(w))

\* the pattern without its anchors: /[0-5]+/.test(w)
ContainsDoorDigit(w) == \E k \in 1..Len(w) : w[k] \in DoorDigits

\* /^[0-5]+$/.test(w)
MatchesDoorDigits(w) == Len(w) >= 1 /\ \A k \in 1..Len(w) : w[k] \in DoorDigits

\* the filter callback
IsValidPlan(item) ==
    /\ item.type = "string"
    /\ Len(Trim(item.chars)) > 0
    /\ MatchesDoorDigits(Trim(item.chars))

\* plans.filter(...).map((plan) => plan.trim())
RECURSIVE FilterValid(_)
FilterValid(items) ==
    IF items = << >> THEN << >>
    ELSE IF IsValidPlan(Head(items))
    THEN <<Trim(Head(items).chars)>> \o FilterValid(Tail(items))
    ELSE FilterValid(Tail(items))

\* const {plans, problemName = 'probatio'} = request.data
ProblemName(inv) ==
    IF data[inv].problemName = Undefined
    THEN DefaultProblemName ELSE data[inv].problemName

SelectPayload(inv) == [id |-> TEAM_ID, problemName |-> ProblemName(inv)]

\* the explore body built from the unfiltered strings of request.data.plans
ExplorePayloadUnfiltered(inv) ==
    [id |-> TEAM_ID,
     plans |-> [k \in 1..Len(data[inv].plans.items) |->
                    data[inv].plans.items[k].chars]]

ExplorePayload(inv) == [id |-> TEAM_ID, plans |-> validPlans[inv]]

\* bodies the contest API answers /explore with
Payloads ==
    {[results |-> << >>, queryCount |-> 0],
     [results |-> <<<<0, 1>>>>, queryCount |-> 1],
     [results |-> <<<<2>>, <<3, 0>>>>, queryCount |-> 3]}

NoPayload == [results |-> << >>, queryCount |-> -1]

Throw(inv, message) ==
    /\ errors' = [errors EXCEPT ![inv] = Append(@, message)]
    /\ relayPc' = [relayPc EXCEPT ![inv] = "failed"]

\* the handler up to its first await: validation, then fetch(.../select)
Invoke(inv) ==
    /\ relayPc[inv] = "start"
    /\ IF data[inv].plans.type # "array"
       THEN /\ Throw(inv, "Invalid request: plans array is required")
            /\ UNCHANGED <<validPlans, requests>>
       ELSE /\ validPlans' =
                [validPlans EXCEPT ![inv] = FilterValid(data[inv].plans.items)]
            /\ IF Len(validPlans'[inv]) = 0
               THEN /\ Throw(inv, "Invalid request: at least one valid plan is required")
                    /\ UNCHANGED requests
               ELSE /\ requests' = Append(requests,
                            [inv |-> inv, path |-> "/select",
                             body |-> SelectPayload(inv)])
                    /\ relayPc' = [relayPc EXCEPT ![inv] = "select"]
                    /\ UNCHANGED errors
    /\ UNCHANGED <<data, selectStatus, exploreStatus, remotePayload, returned,
                   remoteSelected>>
    /\ UNCHANGED <<builderVars, walkVars, viewVars, answeredFor>>

\* /select answers with a success status: fetch(.../explore) follows
SelectOk(inv) ==
    /\ relayPc[inv] = "select"
    /\ selectStatus' = [selectStatus EXCEPT ![inv] = "ok"]
    /\ remoteSelected' = ProblemName(inv)
    /\ requests' = Append(requests,
            [inv |-> inv, path |-> "/explore", body |-> ExplorePayload(inv)])
    /\ relayPc' = [relayPc EXCEPT ![inv] = "explore"]
    /\ UNCHANGED <<data, validPlans, exploreStatus, remotePayload, returned,
                   errors>>
    /\ UNCHANGED <<builderVars, walkVars, viewVars, answeredFor>>

\* a handler that goes on to /explore although /select was refused
SelectRejectedContinues(inv) ==
    /\ relayPc[inv] = "select"
    /\ selectStatus' = [selectStatus EXCEPT ![inv] = "rejected"]
    /\ requests' = Append(requests,
            [inv |-> inv, path |-> "/explore", body |-> ExplorePayload(inv)])
    /\ relayPc' = [relayPc EXCEPT ![inv] = "explore"]
    /\ UNCHANGED <<data, validPlans, exploreStatus, remotePayload, returned,
                   errors, remoteSelected>>
    /\ UNCHANGED <<builderVars, walkVars, viewVars, answeredFor>>

\* /select answers with a non-success status
SelectRejected(inv) ==
    /\ relayPc[inv] = "select"
    /\ selectStatus' = [selectStatus EXCEPT ![inv] = "rejected"]
    /\ Throw(inv, "Failed to explore aedificium: Problem selection failed")
    /\ UNCHANGED <<data, validPlans, requests, exploreStatus, remotePayload,
                   returned, remoteSelected>>
    /\ UNCHANGED <<builderVars, walkVars, viewVars, answeredFor>>

\* a handler that sends /select once more after a network error
SelectNetworkErrorRetries(inv) ==
    /\ relayPc[inv] = "select"
    /\ selectStatus' = [selectStatus EXCEPT ![inv] = "network"]
    /\ IF selectStatus[inv] = "none"
       THEN /\ requests' = Append(requests,
                    [inv |-> inv, path |-> "/select",
                     body |-> SelectPayload(inv)])
            /\ UNCHANGED <<relayPc, errors>>
       ELSE /\ Throw(inv, "Failed to explore aedificium: fetch failed")
            /\ UNCHANGED requests
    /\ UNCHANGED <<data, validPlans, exploreStatus, remotePayload, returned,
                   remoteSelected>>
    /\ UNCHANGED <<builderVars, walkVars, viewVars, answeredFor>>

\* fetch(.../select) throws
SelectNetworkError(inv) ==
    /\ relayPc[inv] = "select"
    /\ selectStatus' = [selectStatus EXCEPT ![inv] = "network"]
    /\ Throw(inv, "Failed to explore aedificium: fetch failed")
    /\ UNCHANGED <<data, validPlans, requests, exploreStatus, remotePayload,
                   returned, remoteSelected>>
    /\ UNCHANGED <<builderVars, walkVars, viewVars, answeredFor>>

\* /explore answers with a success status and a body
ExploreOk(inv) ==
    /\ relayPc[inv] = "explore"
    /\ \E payload \in Payloads :
        /\ remotePayload' = [remotePayload EXCEPT ![inv] = payload]
        /\ returned' = [returned EXCEPT ![inv] = payload]
    /\ exploreStatus' = [exploreStatus EXCEPT ![inv] = "ok"]
    /\ answeredFor' = [answeredFor EXCEPT ![inv] = remoteSelected]
    /\ relayPc' = [relayPc EXCEPT ![inv] = "returned"]
    /\ UNCHANGED <<data, validPlans, requests, selectStatus, errors,
                   remoteSelected>>
    /\ UNCHANGED <<builderVars, walkVars, viewVars>>

\* /explore answers with a non-success status
ExploreRejected(inv) ==
    /\ relayPc[inv] = "explore"
    /\ exploreStatus' = [exploreStatus EXCEPT ![inv] = "rejected"]
    /\ Throw(inv, "Failed to explore aedificium: API request failed")
    /\ UNCHANGED <<data, validPlans, requests, selectStatus, remotePayload,
                   returned, remoteSelected>>
    /\ UNCHANGED <<builderVars, walkVars, viewVars, answeredFor>>

\* fetch(.../explore) throws
ExploreNetworkError(inv) ==
    /\ relayPc[inv] = "explore"
    /\ exploreStatus' = [exploreStatus EXCEPT ![inv] = "network"]
    /\ Throw(inv, "Failed to explore aedificium: fetch failed")
    /\ UNCHANGED <<data, validPlans, requests, selectStatus, remotePayload,
                   returned, remoteSelected>>
    /\ UNCHANGED <<builderVars, walkVars, viewVars, answeredFor>>

(***************************************************************************)
(* BuildingVisualization: the connections memo                             *)
(***************************************************************************)
Min(a, b) == IF a < b THEN a ELSE b

Max(a, b) == IF a > b THEN a ELSE b

\* the connections memo before its first evaluation
NoConnections ==
    [outcome |-> "none", building |-> NoRooms, explorationSteps |-> << >>,
     currentStepIndex |-> 0, edges |-> << >>]

\* a template string `a-b-c` or `self-a-b-c`: its prefix and its numbers
Key(prefix, fields) == [prefix |-> prefix, fields |-> fields]

\* doors.findIndex((d) => d.toRoom === fromRoom && d.toDoor === door)
FindIndex(doors, fromRoom, fromDoor) ==
    LET found == {d \in Doors : /\ doors[d].toRoom = fromRoom
                                /\ doors[d].toDoor = fromDoor}
    IN  IF found = {} THEN -1
        ELSE CHOOSE d \in found : \A e \in found : d <= e

\* a marking loop that stops before the current step
MarkedStepsBeforeCurrent(explorationSteps, currentStepIndex) ==
    {k \in 1..Min(currentStepIndex - 1, Len(explorationSteps) - 1) :
        explorationSteps[k + 1].previousState # NoState}

\* array indexes the marking loop visits: 1 <= i <= currentStepIndex and
\* i < explorationSteps.length, for steps that record a door taken
MarkedSteps(explorationSteps, currentStepIndex) ==
    {k \in 1..Min(currentStepIndex, Len(explorationSteps) - 1) :
        explorationSteps[k + 1].previousState # NoState}

\* `${fromRoom}-${door}-${toRoom}` of the step at array index k
PassageKey(explorationSteps, k) ==
    LET step == explorationSteps[k + 1]
    IN  Key("", <<step.previousState.roomId, step.previousState.doorTaken,
                  step.currentState.roomId>>)

\* `${toRoom}-${findIndex(...)}-${fromRoom}` of the step at array index k
ReverseKey(building, explorationSteps, k) ==
    LET step == explorationSteps[k + 1]
        fromRoom == step.previousState.roomId
        toRoom == step.currentState.roomId
    IN  Key("", <<toRoom,
                  FindIndex(building[toRoom].doors, fromRoom,
                            step.previousState.doorTaken),
                  fromRoom>>)

\* props.building.rooms[toRoom] is undefined for a step of the marking loop
MarkingThrows(building, explorationSteps, currentStepIndex) ==
    \E k \in MarkedSteps(explorationSteps, currentStepIndex) :
        explorationSteps[k + 1].currentState.roomId \notin DOMAIN building

\* keys of currentPassage after the marking loop
CurrentPassage(explorationSteps, currentStepIndex) ==
    {PassageKey(explorationSteps, k) :
        k \in {j \in MarkedSteps(explorationSteps, currentStepIndex) :
                    j = currentStepIndex}}

\* traveledPassages after the marking loop
TraveledPassages(building, explorationSteps, currentStepIndex) ==
    LET earlier == {j \in MarkedSteps(explorationSteps, currentStepIndex) :
                        j # currentStepIndex}
    IN  {PassageKey(explorationSteps, k) : k \in earlier}
        \cup {ReverseKey(building, explorationSteps, k) : k \in earlier}

\* one end of a drawn line; x and y are the position of the door `at`
End(room, d, at) == [room |-> room, door |-> d, at |-> at]

\* a key built from the two room numbers alone
ConnectionKeyRoomsOnly(room, d, targetRoom, targetDoor) ==
    IF room = targetRoom
    THEN Key("self", <<room, Min(d, targetDoor), Max(d, targetDoor)>>)
    ELSE Key("", <<Min(room, targetRoom), Max(room, targetRoom)>>)

\* stepwise page: the key that identifies a connection
ConnectionKeySteps(room, d, targetRoom, targetDoor) ==
    IF room = targetRoom
    THEN Key("self", <<room, Min(d, targetDoor), Max(d, targetDoor)>>)
    ELSE IF room < targetRoom
    THEN Key("", <<room, d, targetRoom, targetDoor>>)
    ELSE Key("", <<targetRoom, targetDoor, room, d>>)

\* a line that always runs from the door iterated to its target
EdgeStepsAsStored(current, traveled, room, d, targetRoom, targetDoor) ==
    LET passageKey == Key("", <<room, d, targetRoom>>)
        reversePassageKey == Key("", <<targetRoom, targetDoor, room>>)
        isCurrent == passageKey \in current \/ reversePassageKey \in current
    IN  [from |-> End(room, d, <<room, d>>),
         to |-> End(targetRoom, targetDoor, <<targetRoom, targetDoor>>),
         status |-> IF isCurrent THEN "current"
                    ELSE IF \/ passageKey \in traveled
                            \/ reversePassageKey \in traveled
                    THEN "traveled" ELSE "normal",
         isDirectional |-> isCurrent]

\* stepwise page: status, direction and ends of the line pushed for a door
EdgeSteps(current, traveled, room, d, targetRoom, targetDoor) ==
    LET passageKey == Key("", <<room, d, targetRoom>>)
        reversePassageKey == Key("", <<targetRoom, targetDoor, room>>)
        fromDoorPos == <<room, d>>
        toDoorPos == <<targetRoom, targetDoor>>
    IN  IF passageKey \in current
        THEN [from |-> End(room, d, fromDoorPos),
              to |-> End(targetRoom, targetDoor, toDoorPos),
              status |-> "current", isDirectional |-> TRUE]
        ELSE IF reversePassageKey \in current
        THEN [from |-> End(room, d, toDoorPos),
              to |-> End(targetRoom, targetDoor, fromDoorPos),
              status |-> "current", isDirectional |-> TRUE]
        ELSE [from |-> End(room, d, fromDoorPos),
              to |-> End(targetRoom, targetDoor, toDoorPos),
              status |-> IF \/ passageKey \in traveled
                            \/ reversePassageKey \in traveled
                         THEN "traveled" ELSE "normal",
              isDirectional |-> FALSE]

\* stepwise page: the loop over rooms and doors, from the n-th door on
RECURSIVE EdgeLoopSteps(_, _, _, _, _, _)
EdgeLoopSteps(building, current, traveled, n, conn, seen) ==
    IF n >= Cardinality(DOMAIN building) * NumDoors THEN conn
    ELSE LET room == building[n \div NumDoors]
             d == n % NumDoors
             targetRoom == room.doors[d].toRoom
             targetDoor == room.doors[d].toDoor
             connectionKey ==
                ConnectionKeySteps(room.id, d, targetRoom, targetDoor)
         IN  IF /\ targetRoom # -1
                /\ (room.id = targetRoom \/ connectionKey \notin seen)
             THEN EdgeLoopSteps(building, current, traveled, n + 1,
                    Append(conn, EdgeSteps(current, traveled, room.id, d,
                                           targetRoom, targetDoor)),
                    IF room.id # targetRoom
                    THEN seen \cup {connectionKey} ELSE seen)
             ELSE EdgeLoopSteps(building, current, traveled, n + 1, conn,
                                seen)

\* stepwise page: the value of the connections memo
ConnectionsSteps(building, explorationSteps, currentStepIndex) ==
    EdgeLoopSteps(building,
        CurrentPassage(explorationSteps, currentStepIndex),
        TraveledPassages(building, explorationSteps, currentStepIndex),
        0, << >>, {})

\* whole-result page: the key that identifies a connection
ConnectionKeyWhole(room, d, targetRoom, targetDoor) ==
    IF room = targetRoom
    THEN Key("self", <<room, d, targetDoor>>)
    ELSE Key("", <<Min(room, targetRoom), Min(d, targetDoor),
                   Max(room, targetRoom), Max(d, targetDoor)>>)

\* whole-result page: the loop over rooms and doors, from the n-th door on
RECURSIVE EdgeLoopWhole(_, _, _, _)
EdgeLoopWhole(building, n, conn, seen) ==
    IF n >= Cardinality(DOMAIN building) * NumDoors THEN conn
    ELSE LET room == building[n \div NumDoors]
             d == n % NumDoors
             targetRoom == room.doors[d].toRoom
             targetDoor == room.doors[d].toDoor
             connectionKey ==
                ConnectionKeyWhole(room.id, d, targetRoom, targetDoor)
         IN  IF /\ targetRoom # -1
                /\ (room.id = targetRoom \/ connectionKey \notin seen)
             THEN EdgeLoopWhole(building, n + 1,
                    Append(conn,
                        [from |-> End(room.id, d, <<room.id, d>>),
                         to |-> End(targetRoom, targetDoor,
                                    <<targetRoom, targetDoor>>)]),
                    IF room.id # targetRoom
                    THEN seen \cup {connectionKey} ELSE seen)
             ELSE EdgeLoopWhole(building, n + 1, conn, seen)

\* whole-result page: the value of the connections memo
ConnectionsWhole(building) == EdgeLoopWhole(building, 0, << >>, {})

\* explorationSteps() as the page passes it: [] until a plan has been loaded
ExplorationSteps == IF walkPc = "returned" THEN steps ELSE << >>

\* the connections memo is evaluated for the building shown, with the
\* steps loaded and a step index inside them
\* draggedRoom holding null: no room index
Null == -1

\* Math.ceil(Math.sqrt(n))
CeilSqrt(n) == CHOOSE c \in 0..n : c * c >= n /\ \A b \in 0..(c - 1) : b * b < n

\* the grid position of a room
GetRoomPosition(r, n) ==
    LET cols == CeilSqrt(n)
    IN  <<150 + (r % cols) * 200, 150 + (r \div cols) * 180>>

\* the memo that lays the rooms out on the grid
InitialPositions(building) ==
    [r \in DOMAIN building |-> GetRoomPosition(r, Cardinality(DOMAIN building))]

\* the signals of a visualization before its first evaluation
DragIdle ==
    /\ roomPositions = << >>
    /\ draggedRoom = Null
    /\ dragOffset = <<0, 0>>

\* the signals of the explore page when it is created
ExploreIdle ==
    /\ explorePlans = << >>
    /\ exploreProblem = DefaultProblemName
    /\ exploreResult = NoPayload
    /\ exploreLoading = FALSE
    /\ exploreError = ""
    /\ explorePc = "idle"
    /\ exploreInv = 1

\* the signals of the simulator page when it is created
PageIdle ==
    /\ pagePlan = << >>
    /\ pageSteps = << >>
    /\ pageIndex = 0

Connections ==
    /\ pc = "built"
    /\ walkPc \in {"idle", "returned"}
    /\ IF variant = "whole"
       THEN conns' = [outcome |-> "drawn", building |-> rooms,
                      explorationSteps |-> << >>, currentStepIndex |-> 0,
                      edges |-> ConnectionsWhole(rooms)]
       ELSE \E k \in 0..Max(0, Len(ExplorationSteps) - 1) :
                conns' =
                    IF MarkingThrows(rooms, ExplorationSteps, k)
                    THEN [outcome |-> "thrown", building |-> rooms,
                          explorationSteps |-> ExplorationSteps,
                          currentStepIndex |-> k, edges |-> << >>]
                    ELSE [outcome |-> "drawn", building |-> rooms,
                          explorationSteps |-> ExplorationSteps,
                          currentStepIndex |-> k,
                          edges |-> ConnectionsSteps(rooms, ExplorationSteps, k)]
    /\ roomPositions' = IF conns.outcome = "none"
                        THEN InitialPositions(rooms) ELSE roomPositions
    /\ UNCHANGED <<builderVars, walkVars, relayVars, toolList, draggedRoom,
                   dragOffset, pageVars, exploreVars>>

\* pointer positions inside the drawing
MousePoints == {<<150, 150>>, <<360, 340>>}

\* where on a room's hexagon the pointer can go down, relative to its centre
GrabOffsets == {<<20, -10>>}

\* the connections memo evaluated again with the properties it was drawn with
Redrawn ==
    IF conns.outcome # "drawn" THEN conns
    ELSE IF variant = "whole"
    THEN [conns EXCEPT !.edges = ConnectionsWhole(conns.building)]
    ELSE [conns EXCEPT !.edges =
              ConnectionsSteps(conns.building, conns.explorationSteps,
                               conns.currentStepIndex)]

\* the pointer goes down on a room; currentTarget may not be an SVG element
HandleMouseDown ==
    /\ conns.outcome = "drawn"
    /\ walkPc \in {"idle", "returned"}
    /\ \E r \in DOMAIN conns.building, grab \in GrabOffsets,
          isSvg \in BOOLEAN :
           /\ draggedRoom' = r
           /\ dragOffset' = IF isSvg THEN grab ELSE dragOffset
    /\ UNCHANGED <<builderVars, walkVars, relayVars, conns, toolList,
                   roomPositions, pageVars, exploreVars>>

\* a move that places every room at the pointer
MovedPositionsAll(point) ==
    [r \in DOMAIN roomPositions |->
        <<point[1] - dragOffset[1], point[2] - dragOffset[2]>>]

\* newPositions.set(dragged, svgCoords - offset)
MovedPositions(point) ==
    [r \in DOMAIN roomPositions \cup {draggedRoom} |->
        IF r = draggedRoom
        THEN <<point[1] - dragOffset[1], point[2] - dragOffset[2]>>
        ELSE roomPositions[r]]

HandleMouseMove ==
    /\ conns.outcome = "drawn"
    /\ walkPc \in {"idle", "returned"}
    /\ \E point \in MousePoints :
           IF draggedRoom # Null
           THEN /\ roomPositions' = MovedPositions(point)
                /\ conns' = Redrawn
           ELSE UNCHANGED <<roomPositions, conns>>
    /\ UNCHANGED <<builderVars, walkVars, relayVars, toolList, draggedRoom,
                   dragOffset, pageVars, exploreVars>>

\* the pointer goes up or leaves the drawing
HandleMouseUp ==
    /\ conns.outcome = "drawn"
    /\ walkPc \in {"idle", "returned"}
    /\ draggedRoom' = Null
    /\ UNCHANGED <<builderVars, walkVars, relayVars, conns, toolList,
                   roomPositions, dragOffset, pageVars, exploreVars>>

(***************************************************************************)
(* Home page                                                               *)
(***************************************************************************)
\* the <li> elements of the tool list the Index component renders: what the
\* entry is for, whether it is wrapped in a link <A>, and the link's href
Index ==
    <<[tool |-> "exploration", link |-> TRUE, href |-> "/submit/explore"],
      [tool |-> "simulator", link |-> FALSE, href |-> Undefined]>>

BuilderIdle ==
    /\ variant = "steps"
    /\ numRooms = 0
    /\ seed = 0
    /\ pc = "idle"
    /\ rng = 0
    /\ rooms = NoRooms
    /\ visited = {}
    /\ queue = << >>
    /\ i = 0
    /\ roomId = 0
    /\ door = 0
    /\ attempts = 0
    /\ calls = 0
    /\ firstResult = [outcome |-> "none", rooms |-> NoRooms]

WalkIdle ==
    /\ routePlan = << >>
    /\ walkPc = "idle"
    /\ pos = 0
    /\ currentRoom = 0
    /\ result = << >>
    /\ steps = << >>
    /\ firstWalk = NoWalk

RelayFresh ==
    /\ validPlans = [inv \in Inv |-> << >>]
    /\ requests = << >>
    /\ selectStatus = [inv \in Inv |-> "none"]
    /\ exploreStatus = [inv \in Inv |-> "none"]
    /\ remotePayload = [inv \in Inv |-> NoPayload]
    /\ returned = [inv \in Inv |-> NoPayload]
    /\ errors = [inv \in Inv |-> << >>]
    /\ remoteSelected = Undefined
    /\ answeredFor = [inv \in Inv |-> Undefined]

NoRequest == [plans |-> [type |-> "undefined", items |-> << >>],
              problemName |-> Undefined]

Init ==
    /\ variant \in {"whole", "steps"}
    /\ numRooms \in 0..MaxRooms
    /\ seed \in Seeds
    /\ pc = "idle"
    /\ rng = 0
    /\ rooms = NoRooms
    /\ visited = {}
    /\ queue = << >>
    /\ i = 0
    /\ roomId = 0
    /\ door = 0
    /\ attempts = 0
    /\ calls = 0
    /\ firstResult = [outcome |-> "none", rooms |-> NoRooms]
    /\ routePlan = << >>
    /\ walkPc = "idle"
    /\ pos = 0
    /\ currentRoom = 0
    /\ result = << >>
    /\ steps = << >>
    /\ firstWalk = NoWalk
    /\ data = [inv \in Inv |-> NoRequest]
    /\ relayPc = [inv \in Inv |-> "absent"]
    /\ RelayFresh
    /\ conns = NoConnections
    /\ toolList = Index
    /\ DragIdle
    /\ PageIdle
    /\ ExploreIdle

Next ==
    \/ Call
    \/ AllocRoom
    \/ AllocDone
    \/ TreeStep
    \/ TreeDone
    \/ AugmentStep
    \/ AugmentDone
    \/ ClosureSkip
    \/ ClosureDraw
    \/ Return
    \/ SimulateStart
    \/ WalkStep
    \/ WalkReturn

Spec == Init /\ [][Next]_vars

\* the page builds the maze of its problem size and seed once
BuildOnce == calls = 0 /\ Call

\* the steps of one running call of generateBuilding
Running ==
    \/ AllocRoom
    \/ AllocDone
    \/ TreeStep
    \/ TreeDone
    \/ AugmentStep
    \/ AugmentDone
    \/ ClosureSkip
    \/ ClosureDraw
    \/ Return

\* one call of generateBuilding; a call that has started runs on until it
\* returns or throws
NextBuilder == BuildOnce \/ Running

SpecBuilder == Init /\ [][NextBuilder]_vars /\ WF_vars(Running)


\* the button that loads the plan is clicked on the rendered page
LoadPlan == conns.outcome # "none" /\ SimulateStart

\* the page: the maze is built and drawn, a plan is walked, the connections
\* are drawn again
NextView ==
    \/ BuildOnce
    \/ AllocRoom
    \/ AllocDone
    \/ TreeStep
    \/ TreeDone
    \/ AugmentStep
    \/ AugmentDone
    \/ ClosureSkip
    \/ ClosureDraw
    \/ Return
    \/ LoadPlan
    \/ WalkStep
    \/ WalkReturn
    \/ Connections

SpecView == Init /\ [][NextView]_vars

\* the seeds of the pages whose rooms are dragged
DragSeeds == {0, 42}

InitDrag == Init /\ variant = "steps" /\ seed \in DragSeeds /\ numRooms >= 1

\* the plans loaded on the pages whose rooms are dragged
DragPlans == {<<"0">>, <<"1", "0">>}

LoadDragPlan ==
    /\ conns.outcome # "none"
    /\ pc = "built"
    /\ walkPc = "idle"
    /\ \E plan \in DragPlans : Simulate(plan)
    /\ UNCHANGED firstWalk

\* the page: the maze is built and drawn, a plan is walked, rooms are dragged
NextDrag ==
    \/ BuildOnce
    \/ Running
    \/ LoadDragPlan
    \/ WalkStep
    \/ WalkReturn
    \/ Connections
    \/ HandleMouseDown
    \/ HandleMouseMove
    \/ HandleMouseUp

SpecDrag == InitDrag /\ [][NextDrag]_vars

(***************************************************************************)
(* The simulator page: its signals, the building memo and its handlers     *)
(***************************************************************************)
\* createSignal<number>(3)
DefaultProblemSize == 3

\* createSignal<number>(12345)
DefaultSeed == 12345

\* the options of the problem size selector that the model builds
ProblemSizes == {3, 6}

\* values parsed from the seed field
SeedInputs == {0, 42}

\* texts typed into the plan field
PlanTexts ==
    {<< >>, <<" ">>, <<"7">>, <<"1", " ">>,
     <<"0", "1", "2", "3", "4", "5", "0", "1", "2", "3", "4", "5">>}

\* /^[0-5]*$/.test(plan.trim())
IsValidRoutePlan(plan) ==
    \A k \in 1..Len(Trim(plan)) : Trim(plan)[k] \in DoorDigits

\* the page is drawn and no handler is running
PageReady == pc = "built" /\ walkPc = "idle"

\* the building memo runs again for a new problem size or seed
Rebuild(n, s) ==
    /\ numRooms' = n
    /\ seed' = s
    /\ rng' = s
    /\ rooms' = NoRooms
    /\ i' = 0
    /\ pc' = "alloc"
    /\ UNCHANGED <<variant, visited, queue, roomId, door, attempts, calls,
                   firstResult>>

SetProblemSize ==
    /\ PageReady
    /\ \E n \in ProblemSizes : n # numRooms /\ Rebuild(n, seed)
    /\ UNCHANGED <<walkVars, relayVars, viewVars>>

\* setSeed(Number.parseInt(value, 10) || 12345)
SetSeed ==
    /\ PageReady
    /\ \E v \in SeedInputs :
           LET s == IF v = 0 THEN DefaultSeed ELSE v
           IN  s # seed /\ Rebuild(numRooms, s)
    /\ UNCHANGED <<walkVars, relayVars, viewVars>>

SetRoutePlan ==
    /\ PageReady
    /\ \E text \in PlanTexts : pagePlan' = text
    /\ UNCHANGED <<builderVars, walkVars, relayVars, conns, toolList,
                   roomPositions, draggedRoom, dragOffset, pageSteps,
                   pageIndex, exploreVars>>

\* handleLoadPlan up to the call of simulateExplorationSteps
HandleLoadPlan ==
    /\ PageReady
    /\ LET plan == Trim(pagePlan)
       IN  IF Len(plan) > 0 /\ IsValidRoutePlan(plan)
           THEN Simulate(plan) /\ UNCHANGED firstWalk
           ELSE UNCHANGED vars

\* handleLoadPlan after the call: setExplorationSteps, setCurrentStepIndex(0)
LoadPlanReturn ==
    /\ pc = "built"
    /\ walkPc = "running"
    /\ pos >= Len(routePlan)
    /\ walkPc' = "idle"
    /\ pageSteps' = steps
    /\ pageIndex' = 0
    /\ UNCHANGED <<routePlan, pos, currentRoom, result, steps, firstWalk>>
    /\ UNCHANGED <<builderVars, relayVars, conns, toolList, roomPositions,
                   draggedRoom, dragOffset, pagePlan, exploreVars>>

\* a navigation that sets the requested index as it is
GoToStepUnclamped(stepIndex) ==
    /\ pageIndex' = IF Len(pageSteps) > 0 THEN stepIndex ELSE pageIndex
    /\ UNCHANGED <<builderVars, walkVars, relayVars, conns, toolList,
                   roomPositions, draggedRoom, dragOffset, pagePlan,
                   pageSteps, exploreVars>>

GoToStep(stepIndex) ==
    /\ pageIndex' = IF Len(pageSteps) > 0
                    THEN Max(0, Min(stepIndex, Len(pageSteps) - 1))
                    ELSE pageIndex
    /\ UNCHANGED <<builderVars, walkVars, relayVars, conns, toolList,
                   roomPositions, draggedRoom, dragOffset, pagePlan,
                   pageSteps, exploreVars>>

\* the navigation buttons are rendered
StepControls == PageReady /\ Len(pageSteps) > 0

\* the buttons +1 and +10
GoForward ==
    /\ StepControls
    /\ ~(pageIndex >= Len(pageSteps) - 1)
    /\ \E amount \in {1, 10} : GoToStep(pageIndex + amount)

\* the buttons -1 and -10
GoBackward ==
    /\ StepControls
    /\ pageIndex # 0
    /\ \E amount \in {1, 10} : GoToStep(pageIndex - amount)

GoToBeginning ==
    /\ StepControls
    /\ pageIndex # 0
    /\ GoToStep(0)

GoToEnd ==
    /\ StepControls
    /\ ~(pageIndex >= Len(pageSteps) - 1)
    /\ GoToStep(Len(pageSteps) - 1)

InitPage ==
    /\ Init
    /\ variant = "steps"
    /\ numRooms = DefaultProblemSize
    /\ seed = DefaultSeed

NextPage ==
    \/ BuildOnce
    \/ Running
    \/ SetProblemSize
    \/ SetSeed
    \/ SetRoutePlan
    \/ HandleLoadPlan
    \/ WalkStep
    \/ LoadPlanReturn
    \/ GoForward
    \/ GoBackward
    \/ GoToBeginning
    \/ GoToEnd

SpecPage == InitPage /\ [][NextPage]_vars

(***************************************************************************)
(* The explore page: its signals and onSubmitExplore                       *)
(***************************************************************************)
\* texts typed into the plans field
ExploreTexts ==
    {<< >>, <<",">>, <<"5", "6">>, <<"5", ",", " ">>, <<"5", ",", "6">>,
     <<" ", "5", ",", "5", "5">>}

\* the options of the problem selector
ExploreProblems == {"probatio", "primus"}

\* String.prototype.split(',')
RECURSIVE SplitComma(_)
SplitComma(text) ==
    LET commas == {k \in 1..Len(text) : text[k] = ","}
    IN  IF commas = {} THEN <<text>>
        ELSE LET k == CHOOSE c \in commas : \A d \in commas : c <= d
             IN  <<SubSeq(text, 1, k - 1)>>
                 \o SplitComma(SubSeq(text, k + 1, Len(text)))

\* .map((plan) => plan.trim()).filter((plan) => plan.length > 0)
RECURSIVE TrimmedNonEmpty(_)
TrimmedNonEmpty(entries) ==
    IF entries = << >> THEN << >>
    ELSE IF Len(Trim(Head(entries))) > 0
    THEN <<Trim(Head(entries))>> \o TrimmedNonEmpty(Tail(entries))
    ELSE TrimmedNonEmpty(Tail(entries))

PlansArray(text) == TrimmedNonEmpty(SplitComma(text))

\* a validation whose pattern has lost its anchors
IsInvalidPlanUnanchored(plan) == ~ContainsDoorDigit(plan)

\* !/^[0-5]+$/.test(plan)
IsInvalidPlan(plan) == ~MatchesDoorDigits(plan)

InvalidPlans(plansArray) ==
    {k \in 1..Len(plansArray) : IsInvalidPlan(plansArray[k])}

\* the messages the page shows
NoPlansMessage == "no plans"

InvalidPlansMessage == "invalid plans"

\* the message of the error a failed call is rejected with
CallFailedMessage == "INTERNAL"

\* the relay invocations not made yet
FreeInv == {inv \in Inv : relayPc[inv] = "absent"}

SetPlans ==
    /\ explorePc = "idle"
    /\ ~exploreLoading
    /\ \E text \in ExploreTexts : explorePlans' = text
    /\ UNCHANGED <<exploreProblem, exploreResult, exploreLoading, exploreError,
                   explorePc, exploreInv>>
    /\ UNCHANGED <<builderVars, walkVars, relayVars, conns, toolList,
                   roomPositions, draggedRoom, dragOffset, pageVars>>

SetProblemName ==
    /\ explorePc = "idle"
    /\ ~exploreLoading
    /\ \E name \in ExploreProblems : exploreProblem' = name
    /\ UNCHANGED <<explorePlans, exploreResult, exploreLoading, exploreError,
                   explorePc, exploreInv>>
    /\ UNCHANGED <<builderVars, walkVars, relayVars, conns, toolList,
                   roomPositions, draggedRoom, dragOffset, pageVars>>

\* onSubmitExplore up to the try block; the button is enabled
OnSubmitExplore ==
    /\ explorePc = "idle"
    /\ ~exploreLoading
    /\ Trim(explorePlans) # << >>
    /\ FreeInv # {}
    /\ exploreError' = ""
    /\ exploreResult' = NoPayload
    /\ exploreLoading' = TRUE
    /\ explorePc' = "validating"
    /\ UNCHANGED <<explorePlans, exploreProblem, exploreInv>>
    /\ UNCHANGED <<builderVars, walkVars, relayVars, conns, toolList,
                   roomPositions, draggedRoom, dragOffset, pageVars>>

\* the catch and finally blocks
Caught(message) ==
    /\ exploreError' = message
    /\ exploreLoading' = FALSE
    /\ explorePc' = "idle"

\* the try block up to the await of exploreAedificium
ValidatePlans ==
    /\ explorePc = "validating"
    /\ LET plansArray == PlansArray(explorePlans)
           inv == CHOOSE f \in FreeInv : \A g \in FreeInv : f <= g
       IN  IF Len(plansArray) = 0
           THEN /\ Caught(NoPlansMessage)
                /\ UNCHANGED <<exploreInv, data, relayPc>>
           ELSE IF InvalidPlans(plansArray) # {}
           THEN /\ Caught(InvalidPlansMessage)
                /\ UNCHANGED <<exploreInv, data, relayPc>>
           ELSE /\ data' = [data EXCEPT ![inv] =
                        [plans |-> [type |-> "array",
                                    items |-> [k \in 1..Len(plansArray) |->
                                                  [type |-> "string",
                                                   chars |-> plansArray[k]]]],
                         problemName |-> exploreProblem]]
                /\ relayPc' = [relayPc EXCEPT ![inv] = "start"]
                /\ exploreInv' = inv
                /\ explorePc' = "awaiting"
                /\ UNCHANGED <<exploreError, exploreLoading>>
    /\ UNCHANGED <<explorePlans, exploreProblem, exploreResult>>
    /\ UNCHANGED <<validPlans, requests, selectStatus, exploreStatus,
                   remotePayload, returned, errors, remoteSelected,
                   answeredFor>>
    /\ UNCHANGED <<builderVars, walkVars, conns, toolList, roomPositions,
                   draggedRoom, dragOffset, pageVars>>

\* the call resolves: setResult(response.data), then the finally block
ExploreResolved ==
    /\ explorePc = "awaiting"
    /\ relayPc[exploreInv] = "returned"
    /\ exploreResult' = returned[exploreInv]
    /\ exploreLoading' = FALSE
    /\ explorePc' = "idle"
    /\ UNCHANGED <<explorePlans, exploreProblem, exploreError, exploreInv>>
    /\ UNCHANGED <<builderVars, walkVars, relayVars, conns, toolList,
                   roomPositions, draggedRoom, dragOffset, pageVars>>

\* a handler without its finally block
ExploreFailedStaysLoading ==
    /\ explorePc = "awaiting"
    /\ relayPc[exploreInv] = "failed"
    /\ exploreError' = CallFailedMessage
    /\ explorePc' = "idle"
    /\ UNCHANGED <<explorePlans, exploreProblem, exploreResult, exploreInv,
                   exploreLoading>>
    /\ UNCHANGED <<builderVars, walkVars, relayVars, conns, toolList,
                   roomPositions, draggedRoom, dragOffset, pageVars>>

\* the call is rejected: the catch and finally blocks
ExploreFailed ==
    /\ explorePc = "awaiting"
    /\ relayPc[exploreInv] = "failed"
    /\ Caught(CallFailedMessage)
    /\ UNCHANGED <<explorePlans, exploreProblem, exploreResult, exploreInv>>
    /\ UNCHANGED <<builderVars, walkVars, relayVars, conns, toolList,
                   roomPositions, draggedRoom, dragOffset, pageVars>>

InitExplore ==
    /\ BuilderIdle
    /\ WalkIdle
    /\ data = [inv \in Inv |-> NoRequest]
    /\ relayPc = [inv \in Inv |-> "absent"]
    /\ RelayFresh
    /\ conns = NoConnections
    /\ toolList = Index
    /\ DragIdle
    /\ PageIdle
    /\ ExploreIdle

\* the steps of the relay invocation inv
RelayStep(inv) ==
    \/ Invoke(inv)
    \/ SelectOk(inv)
    \/ SelectRejected(inv)
    \/ SelectNetworkError(inv)
    \/ ExploreOk(inv)
    \/ ExploreRejected(inv)
    \/ ExploreNetworkError(inv)

NextExplore ==
    \/ SetPlans
    \/ SetProblemName
    \/ OnSubmitExplore
    \/ ValidatePlans
    \/ ExploreResolved
    \/ ExploreFailed
    \/ \E inv \in Inv : RelayStep(inv)

SpecExplore == InitExplore /\ [][NextExplore]_vars

\* a started handler runs on, every fetch of the relay settles, and the
\* call of the page settles
SpecExploreFair ==
    /\ SpecExplore
    /\ WF_vars(ValidatePlans)
    /\ WF_vars(ExploreResolved)
    /\ WF_vars(ExploreFailed)
    /\ \A inv \in Inv : WF_vars(RelayStep(inv))

\* the page: the maze is built, a plan is walked and walked once more
NextReplay ==
    \/ BuildOnce
    \/ AllocRoom
    \/ AllocDone
    \/ TreeStep
    \/ TreeDone
    \/ AugmentStep
    \/ AugmentDone
    \/ ClosureSkip
    \/ ClosureDraw
    \/ Return
    \/ SimulateStart
    \/ WalkStep
    \/ WalkReturn
    \/ SimulateAgain

SpecReplay == Init /\ [][NextReplay]_vars

InitRelay ==
    /\ BuilderIdle
    /\ WalkIdle
    /\ \E d \in RequestData :
            data = [inv \in Inv |-> IF inv = 1 THEN d ELSE NoRequest]
    /\ relayPc = [inv \in Inv |-> IF inv = 1 THEN "start" ELSE "absent"]
    /\ RelayFresh
    /\ conns = NoConnections
    /\ toolList = Index
    /\ DragIdle
    /\ PageIdle
    /\ ExploreIdle

NextRelay ==
    \E inv \in Inv :
        \/ Invoke(inv)
        \/ SelectOk(inv)
        \/ SelectRejected(inv)
        \/ SelectNetworkError(inv)
        \/ ExploreOk(inv)
        \/ ExploreRejected(inv)
        \/ ExploreNetworkError(inv)

SpecRelay == InitRelay /\ [][NextRelay]_vars

\* a Building with unassigned doors: n rooms joined in a chain through their
\* first free doors, as the spanning-tree phase leaves them
RECURSIVE Chain(_, _)
Chain(rs, t) ==
    IF t \notin DOMAIN rs THEN rs
    ELSE Chain(ConnectRooms(rs, t - 1, FindAvailableDoor(rs, t - 1),
                            t, FindAvailableDoor(rs, t)), t + 1)

PartialBuilding(n) ==
    Chain([r \in 0..(n - 1) |-> NewRoom(r, r % NumLabels)], 1)

\* the simulators called with a Building that has unassigned doors
InitPartial ==
    /\ variant \in {"whole", "steps"}
    /\ numRooms \in 1..MaxRooms
    /\ seed = 0
    /\ pc = "built"
    /\ rng = 0
    /\ rooms = PartialBuilding(numRooms)
    /\ visited = {}
    /\ queue = << >>
    /\ i = 0
    /\ roomId = 0
    /\ door = 0
    /\ attempts = 0
    /\ calls = 0
    /\ firstResult = [outcome |-> "none", rooms |-> NoRooms]
    /\ WalkIdle
    /\ data = [inv \in Inv |-> NoRequest]
    /\ relayPc = [inv \in Inv |-> "absent"]
    /\ RelayFresh
    /\ conns = NoConnections
    /\ toolList = Index
    /\ DragIdle
    /\ PageIdle
    /\ ExploreIdle

NextPartial ==
    \/ SimulateStart
    \/ WalkStep
    \/ WalkReturn
    \/ SimulateAgain

SpecPartial == InitPartial /\ [][NextPartial]_vars

\* problem names two callers may send; absent means the default
ProblemNames == {Undefined, "primus", "secundus"}

\* requests with one valid plan
ConcurrentData ==
    {[plans |-> [type |-> "array",
                 items |-> <<[type |-> "string", chars |-> <<"5">>]>>],
      problemName |-> n] : n \in ProblemNames}

\* two invocations of the handler in flight, naming different problems
InitConcurrent ==
    /\ BuilderIdle
    /\ WalkIdle
    /\ data \in [Inv -> ConcurrentData]
    /\ ProblemName(1) # ProblemName(2)
    /\ relayPc = [inv \in Inv |-> "start"]
    /\ RelayFresh
    /\ conns = NoConnections
    /\ toolList = Index
    /\ DragIdle
    /\ PageIdle
    /\ ExploreIdle

SpecConcurrent == InitConcurrent /\ [][NextRelay]_vars

(***************************************************************************)
(* Properties                                                              *)
(***************************************************************************)
Built == pc = "built"

IsDoorDigit(c) == c \in {"0", "1", "2", "3", "4", "5"}

DoorDigitsOnly(w) == \A k \in 1..Len(w) : IsDoorDigit(w[k])

\* C1: for numRooms >= 1 the returned maze has exactly numRooms rooms, each
\* with exactly six doors, and every door targets a valid (room, door) pair;
\* no door keeps the sentinel -1.
C1_AllDoorsAssigned ==
    (Built /\ numRooms >= 1) =>
        /\ DOMAIN rooms = 0..(numRooms - 1)
        /\ \A r \in DOMAIN rooms :
            /\ DOMAIN rooms[r].doors = 0..5
            /\ \A d \in DOMAIN rooms[r].doors :
                /\ rooms[r].doors[d].toRoom \in 0..(numRooms - 1)
                /\ rooms[r].doors[d].toDoor \in 0..5

C1_Witness == Built /\ numRooms >= 2 /\ seed = 12345

RECURSIVE ReachableFrom(_)
ReachableFrom(S) ==
    LET T == S \cup {rooms[r].doors[d].toRoom : r \in S, d \in 0..5}
    IN  IF T = S THEN S ELSE ReachableFrom(T)

\* C2: for numRooms >= 1 every room of the returned maze is reachable from
\* room 0 by following door links.
C2_AllReachable ==
    (Built /\ numRooms >= 1) => ReachableFrom({0}) = 0..(numRooms - 1)

C2_Witness ==
    /\ Built
    /\ numRooms >= 3
    /\ \E r \in DOMAIN rooms : \E d \in 2..5 : rooms[r].doors[d].toRoom # r

\* C3: the door links of the returned maze are symmetric: if door i of room
\* A targets (B, j) then door j of room B targets (A, i), self-loops included.
C3_Symmetric ==
    Built =>
        \A r \in DOMAIN rooms : \A d \in DOMAIN rooms[r].doors :
            LET t == rooms[r].doors[d]
            IN  /\ t.toRoom \in DOMAIN rooms
                /\ t.toDoor \in DOMAIN rooms[t.toRoom].doors
                /\ rooms[t.toRoom].doors[t.toDoor] = [toRoom |-> r, toDoor |-> d]

C3_Witness ==
    /\ Built
    /\ \E r \in DOMAIN rooms : \E d \in 0..5 :
          rooms[r].doors[d] = [toRoom |-> r, toDoor |-> d]
    /\ \E r \in DOMAIN rooms : \E d \in 0..5 :
          rooms[r].doors[d].toRoom = r /\ rooms[r].doors[d].toDoor # d
    /\ \E r \in DOMAIN rooms : \E d \in 0..5 : rooms[r].doors[d].toRoom # r

\* C4: a second call of generateBuilding with the same (numRooms, seed)
\* returns the same room labels and the same door assignments as the first.
C4_Deterministic ==
    (Built /\ calls >= 2) =>
        /\ firstResult.outcome = "built"
        /\ firstResult.rooms = rooms

C4_Witness == Built /\ calls >= 2 /\ numRooms >= 2 /\ variant = "whole"

Recorded == IF variant = "whole" THEN result ELSE steps

RECURSIVE CountDoorDigits(_)
CountDoorDigits(w) ==
    IF w = << >> THEN 0
    ELSE (IF IsDoorDigit(Head(w)) THEN 1 ELSE 0) + CountDoorDigits(Tail(w))

\* C5: the walk simulator is total: for any built maze (the zero-room maze
\* included) and any plan it returns without error a sequence of length
\* 1 + (number of plan characters that are digits 0-5) whose first element
\* is the starting room's label; other characters are skipped.
C5_WalkTotal ==
    /\ walkPc # "thrown"
    /\ walkPc = "returned" =>
        /\ Len(Recorded) = 1 + CountDoorDigits(routePlan)
        /\ IF variant = "whole"
           THEN result[1] = rooms[0].label
           ELSE steps[1].currentState.label = rooms[0].label

\* the room the walk is in after the first k characters of the plan
RECURSIVE RoomAfter(_)
RoomAfter(k) ==
    IF k = 0 THEN 0
    ELSE rooms[RoomAfter(k - 1)].doors[DigitValue[routePlan[k]]].toRoom

\* C6: on a maze with all doors assigned and a plan over the digits 0-5,
\* element k+1 of the walk result is the label of the room behind door
\* plan[k] of the room reached after k moves; the stepwise variant also
\* records the room and label of step k as previous state, with
\* doorTaken = plan[k].
C6_WalkFollowsDoors ==
    (walkPc \in {"running", "returned"} /\ DoorDigitsOnly(routePlan)) =>
        /\ Len(Recorded) = pos + 1
        /\ \A k \in 1..pos :
            IF variant = "whole"
            THEN result[k + 1] = rooms[RoomAfter(k)].label
            ELSE /\ steps[k + 1].currentState =
                        [roomId |-> RoomAfter(k),
                         label |-> rooms[RoomAfter(k)].label]
                 /\ steps[k + 1].previousState =
                        [roomId |-> steps[k].currentState.roomId,
                         label |-> steps[k].currentState.label,
                         doorTaken |-> DigitValue[routePlan[k]]]

C6_Witness ==
    /\ walkPc = "returned"
    /\ variant = "steps"
    /\ Len(routePlan) >= 2
    /\ DoorDigitsOnly(routePlan)
    /\ currentRoom # 0
    /\ steps[2].currentState.roomId # currentRoom

RequestsOf(inv, path) ==
    {k \in 1..Len(requests) : requests[k].inv = inv /\ requests[k].path = path}

\* positions of the plans that are strings, non-blank and all digits 0-5
\* once trimmed
KeptPositions(items) ==
    {k \in 1..Len(items) :
        /\ items[k].type = "string"
        /\ \E j \in 1..Len(items[k].chars) : items[k].chars[j] # " "
        /\ DoorDigitsOnly(Trim(items[k].chars))}

NthOf(K, n) == CHOOSE k \in K : Cardinality({m \in K : m <= k}) = n

Started(inv) == relayPc[inv] \notin {"absent", "start"}

\* C7: the relay keeps exactly the plans that are strings, non-blank and
\* match ^[0-5]+$ after trimming, trimmed and in their original order; if
\* plans is missing, not an array, or nothing is kept, the invocation fails
\* without any request to the contest API.
C7_FilterThenFail ==
    \A inv \in Inv : Started(inv) =>
        LET items == data[inv].plans.items
            K == KeptPositions(items)
        IN  IF data[inv].plans.type # "array" \/ K = {}
            THEN /\ relayPc[inv] = "failed"
                 /\ RequestsOf(inv, "/select") = {}
                 /\ RequestsOf(inv, "/explore") = {}
            ELSE /\ Len(validPlans[inv]) = Cardinality(K)
                 /\ \A n \in 1..Cardinality(K) :
                        validPlans[inv][n] = Trim(items[NthOf(K, n)].chars)
                 /\ RequestsOf(inv, "/select") # {}

C7_Witness ==
    /\ relayPc[1] = "select"
    /\ Len(data[1].plans.items) = 2
    /\ Len(validPlans[1]) = 1
    /\ \E k \in 1..2 : /\ data[1].plans.items[k].type = "string"
                       /\ Len(data[1].plans.items[k].chars) = 2
                       /\ validPlans[1] = <<Trim(data[1].plans.items[k].chars)>>
                       /\ Len(validPlans[1][1]) = 1

\* C8: /select is requested before /explore, /explore only after /select
\* returned a success status; when selection fails the invocation never
\* requests /explore.
C8_SelectBeforeExplore ==
    \A inv \in Inv :
        /\ \A k \in RequestsOf(inv, "/explore") :
            /\ selectStatus[inv] = "ok"
            /\ \E j \in RequestsOf(inv, "/select") : j < k
        /\ selectStatus[inv] \in {"rejected", "network"} =>
                RequestsOf(inv, "/explore") = {}

C8_Witness ==
    /\ selectStatus[1] = "rejected"
    /\ relayPc[1] = "failed"
    /\ RequestsOf(1, "/select") # {}
    /\ Len(validPlans[1]) >= 2

\* C9: on a remote failure the invocation ends with exactly one failure
\* surfaced to its caller and no results; it never retries: at most one
\* /select and at most one /explore request per invocation.
C9_SingleFailureNoRetry ==
    \A inv \in Inv :
        /\ (\/ selectStatus[inv] \in {"rejected", "network"}
            \/ exploreStatus[inv] \in {"rejected", "network"}) =>
                /\ relayPc[inv] = "failed"
                /\ Len(errors[inv]) = 1
                /\ returned[inv] = NoPayload
        /\ Cardinality(RequestsOf(inv, "/select")) <= 1
        /\ Cardinality(RequestsOf(inv, "/explore")) <= 1

C9_Witness ==
    /\ exploreStatus[1] = "network"
    /\ relayPc[1] = "failed"
    /\ Len(errors[1]) = 1
    /\ Len(requests) = 2

\* C10: when /select and /explore both succeed the relay returns exactly the
\* body /explore answered with, and the plans it sent to /explore are
\* exactly the filtered plan list.
C10_PayloadUnchanged ==
    \A inv \in Inv :
        /\ (selectStatus[inv] = "ok" /\ exploreStatus[inv] = "ok") =>
                /\ relayPc[inv] = "returned"
                /\ returned[inv] = remotePayload[inv]
                /\ returned[inv] \in Payloads
                /\ errors[inv] = << >>
        /\ \A k \in RequestsOf(inv, "/explore") :
                /\ requests[k].body.id = TEAM_ID
                /\ requests[k].body.plans = FilterValid(data[inv].plans.items)

C10_Witness ==
    /\ relayPc[1] = "returned"
    /\ returned[1].queryCount = 3
    /\ Len(data[1].plans.items) > Len(validPlans[1])
(***************************************************************************)
(* C11: when two invocations that name different problems run              *)
(* concurrently, every /explore that succeeds was answered for the problem *)
(* its own invocation selected                                             *)
(***************************************************************************)
C11_ExploreOwnProblem ==
    \A inv \in Inv :
        exploreStatus[inv] = "ok" => answeredFor[inv] = ProblemName(inv)

(***************************************************************************)
(* C12: for any integer seed, every next() leaves the state in [0, 2^31),  *)
(* following state' = (state * 1103515245 + 12345) mod 2^31, and returns a *)
(* value in [0, 1), so nextInt(max) is in [0, max) for every max >= 1      *)
(***************************************************************************)
\* (s * 1103515245 + 12345) mod 2^31 over the integers
ExactNext(s) ==
    IF s >= 0
    THEN Mod31(BigAdd(BigMul(ToLimbs(s), Multiplier), Increment))
    ELSE LET m == Mod31(BigSub(BigMul(ToLimbs(Abs(s)), Multiplier), Increment))
         IN  IF m = 0 THEN 0 ELSE 2147483647 - (m - 1)

C12_GeneratorInRange ==
    pc # "idle" =>
        \A max \in 1..NumDoors :
            LET n == NextInt(rng, max)
            IN  /\ n.seed >= 0
                /\ n.seed = ExactNext(rng)
                /\ n.value >= 0
                /\ n.value < max

(***************************************************************************)
(* C13: the starting room of a returned maze is a valid room index,        *)
(* 0 <= startingRoom < number of rooms, for every room count, the empty    *)
(* maze returned for room_count = 0 included                               *)
(***************************************************************************)
C13_StartingRoomValid ==
    Built => StartingRoom \in DOMAIN rooms

\* C13 amended: the starting room of a returned maze is a valid room index
\* for every room count of at least 1; for room_count = 0 the maze has no
\* rooms and its starting room, 0, is not the index of a room
C13_StartingRoomValidNonEmpty ==
    Built =>
        /\ DOMAIN rooms = 0..(numRooms - 1)
        /\ numRooms >= 1 => StartingRoom \in DOMAIN rooms
        /\ numRooms = 0 => rooms = NoRooms /\ StartingRoom \notin DOMAIN rooms

C13_Witness ==
    /\ Built
    /\ numRooms >= 2
    /\ StartingRoom \in DOMAIN rooms

\* the two door ends a drawn line joins
LinkOfEdge(e) == {<<e.from.room, e.from.door>>, <<e.to.room, e.to.door>>}

\* the door ends joined by door d of room r
LinkOfDoor(b, r, d) == {<<r, d>>, <<b[r].doors[d].toRoom, b[r].doors[d].toDoor>>}

\* connections of the maze between two distinct rooms
RoomLinks(b) ==
    UNION {{LinkOfDoor(b, r, d) :
                d \in {e \in Doors : b[r].doors[e].toRoom \notin {-1, r}}} :
           r \in DOMAIN b}

\* self-loops of the maze
SelfLoops(b) ==
    UNION {{LinkOfDoor(b, r, d) :
                d \in {e \in Doors : b[r].doors[e].toRoom = r}} :
           r \in DOMAIN b}

\* number of drawn lines that join the ends of link l
EdgeCount(l) ==
    Cardinality({k \in DOMAIN conns.edges : LinkOfEdge(conns.edges[k]) = l})

\* the rooms a link joins
RoomsOf(l) == {end[1] : end \in l}

Drawn(v) == variant = v /\ conns.outcome = "drawn"

(***************************************************************************)
(* C14: on the stepwise page every connection between two distinct rooms   *)
(* is drawn exactly once, also when the same two rooms are joined by       *)
(* several door pairs                                                      *)
(***************************************************************************)
C14_OneEdgePerLinkSteps ==
    Drawn("steps") =>
        /\ \A l \in RoomLinks(conns.building) : EdgeCount(l) = 1
        /\ \A k \in DOMAIN conns.edges :
                LinkOfEdge(conns.edges[k])
                    \in RoomLinks(conns.building) \cup SelfLoops(conns.building)

C14_Witness ==
    /\ Drawn("steps")
    /\ \E l1, l2 \in RoomLinks(conns.building) :
            /\ l1 # l2
            /\ RoomsOf(l1) = RoomsOf(l2)
            /\ {end[2] : end \in l1} = {end[2] : end \in l2}
            /\ EdgeCount(l1) = 1
            /\ EdgeCount(l2) = 1

(***************************************************************************)
(* C15: on the whole-result page every connection between two distinct     *)
(* rooms is drawn exactly once, also when rooms A and B are joined both by *)
(* A.i-B.j and by A.j-B.i                                                  *)
(***************************************************************************)
C15_OneEdgePerLinkWhole ==
    Drawn("whole") =>
        \A l \in RoomLinks(conns.building) : EdgeCount(l) = 1

(***************************************************************************)
(* C16: the edge list has exactly one entry per self-loop: one for a door  *)
(* linked to itself and one for a link between two different doors of the  *)
(* same room                                                               *)
(***************************************************************************)
C16_OneEdgePerSelfLoop ==
    conns.outcome = "drawn" =>
        \A l \in SelfLoops(conns.building) : EdgeCount(l) = 1

\* the door link taken by the step at array index j >= 1 of the steps drawn
TakenLink(j) ==
    LET step == conns.explorationSteps[j + 1]
    IN  LinkOfDoor(conns.building, step.previousState.roomId,
                   step.previousState.doorTaken)

\* the line e is the link taken by step j of the steps drawn
TakenBy(e, j) ==
    /\ j >= 1
    /\ j < Len(conns.explorationSteps)
    /\ LinkOfEdge(e) = TakenLink(j)

(***************************************************************************)
(* C17: on the stepwise page, for a walk over door digits and a step index *)
(* k, a drawn line is 'current' iff it is the door link taken by step k    *)
(* (k >= 1), 'traveled' iff it is not current and some step j with         *)
(* 1 <= j < k took it in either direction, and 'normal' otherwise; at      *)
(* k = 0 every line is 'normal'                                            *)
(***************************************************************************)
C17_StatusTagging ==
    (Drawn("steps") /\ DoorDigitsOnly(routePlan)) =>
        \A n \in DOMAIN conns.edges :
            LET e == conns.edges[n]
                k == conns.currentStepIndex
                isCurrent == TakenBy(e, k)
                wasTaken == \E j \in 1..(k - 1) : TakenBy(e, j)
            IN  /\ e.status \in {"current", "traveled", "normal"}
                /\ e.status = "current" <=> isCurrent
                /\ e.status = "traveled" <=> (~isCurrent /\ wasTaken)
                /\ k = 0 => e.status = "normal"

C17_Witness ==
    /\ Drawn("steps")
    /\ DoorDigitsOnly(routePlan)
    /\ conns.currentStepIndex >= 2
    /\ \E n \in DOMAIN conns.edges : conns.edges[n].status = "current"
    /\ \E n \in DOMAIN conns.edges : conns.edges[n].status = "traveled"
    /\ \E n \in DOMAIN conns.edges : conns.edges[n].status = "normal"

(***************************************************************************)
(* C18: walking is read-only and repeatable: a walk leaves the maze as it  *)
(* was, and replaying the same plan on the same maze gives the same        *)
(* outcome and the same label sequence                                     *)
(***************************************************************************)
C18_WalkReadOnlyRepeatable ==
    /\ [][(walkPc # "idle" \/ walkPc' # "idle") => rooms' = rooms]_vars
    /\ []((firstWalk.outcome # "none" /\ walkPc \in {"returned", "thrown"}) =>
            /\ walkPc = firstWalk.outcome
            /\ result = firstWalk.result
            /\ steps = firstWalk.steps)

C18_Witness ==
    /\ firstWalk.outcome = "returned"
    /\ walkPc = "returned"
    /\ Len(routePlan) >= 2
    /\ currentRoom # StartingRoom
    /\ \/ Len(result) = Len(routePlan) + 1
       \/ Len(steps) = Len(routePlan) + 1

\* the next character of the plan names a door that is unassigned
UnassignedDoorNext ==
    /\ walkPc = "running"
    /\ pos < Len(routePlan)
    /\ IsDoorDigit(routePlan[pos + 1])
    /\ rooms[currentRoom].doors[DigitValue[routePlan[pos + 1]]].toRoom = -1

\* what the simulator records for room r entered through door d of room r
StayRecord(r, d) ==
    [currentState |-> [roomId |-> r, label |-> rooms[r].label],
     previousState |-> [roomId |-> r, label |-> rooms[r].label,
                        doorTaken |-> d],
     stepIndex |-> pos + 1,
     totalSteps |-> Len(routePlan) + 1]

(***************************************************************************)
(* C19: when the door named by a plan character is unassigned              *)
(* (toRoom = -1) the simulator does not fail: it stays in the room,        *)
(* records the label of that room again and goes on to the next character  *)
(***************************************************************************)
C19_UnassignedDoorStays ==
    [][(UnassignedDoorNext /\ pos' = pos + 1) =>
            /\ walkPc' = "running"
            /\ currentRoom' = currentRoom
            /\ IF variant = "whole"
               THEN result' = Append(result, rooms[currentRoom].label)
               ELSE steps' = Append(steps,
                        StayRecord(currentRoom, DigitValue[routePlan[pos + 1]]))
      ]_vars

C19_Witness ==
    /\ walkPc = "returned"
    /\ variant = "steps"
    /\ DoorDigitsOnly(routePlan)
    /\ Len(steps) = Len(routePlan) + 1
    /\ \E k \in 2..(Len(steps) - 1) :
            /\ steps[k].currentState.roomId = steps[k].previousState.roomId
            /\ rooms[steps[k].previousState.roomId]
                    .doors[steps[k].previousState.doorTaken].toRoom = -1
            /\ steps[k + 1].currentState.roomId # steps[k].currentState.roomId

(***************************************************************************)
(* C20: the home page lists exactly two tools and both entries are links:  *)
(* the exploration tool points to /submit/explore and the simulator tool   *)
(* to /simulator                                                           *)
(***************************************************************************)
C20_TwoToolLinks ==
    /\ Len(toolList) = 2
    /\ \A n \in DOMAIN toolList : toolList[n].link
    /\ \E n \in DOMAIN toolList :
            toolList[n].tool = "exploration" /\ toolList[n].href = "/submit/explore"
    /\ \E n \in DOMAIN toolList :
            toolList[n].tool = "simulator" /\ toolList[n].href = "/simulator"

\* door d of room r is assigned
Assigned(rs, r, d) == rs[r].doors[d].toRoom # -1

\* a step leaves every door that is assigned as it is
KeepsAssignedDoors ==
    /\ DOMAIN rooms' = DOMAIN rooms
    /\ \A r \in DOMAIN rooms : \A d \in Doors :
            Assigned(rooms, r, d) => rooms'[r].doors[d] = rooms[r].doors[d]

(***************************************************************************)
(* C21: during construction an assigned door is never reassigned: every    *)
(* step of the augmentation and closure phases changes only doors that     *)
(* were unassigned immediately before it, so the links of the              *)
(* spanning-tree phase are present unchanged in the returned maze          *)
(***************************************************************************)
C21_NoReassignment ==
    /\ [][(pc \in {"augment", "closure"}) => KeepsAssignedDoors]_vars
    /\ [](Built =>
            \A r \in DOMAIN rooms : \A d \in Doors :
                Assigned(PartialBuilding(numRooms), r, d) =>
                    rooms[r].doors[d] = PartialBuilding(numRooms)[r].doors[d])

C21_Witness ==
    /\ Built
    /\ numRooms >= 2
    /\ \E r \in DOMAIN rooms : \E d \in Doors :
            /\ ~Assigned(PartialBuilding(numRooms), r, d)
            /\ rooms[r].doors[d].toRoom # r
    /\ \E r \in DOMAIN rooms : \E d \in Doors :
            Assigned(PartialBuilding(numRooms), r, d)

\* the least element of a non-empty set of numbers
Least(S) == CHOOSE x \in S : \A y \in S : x <= y

\* the doors of the maze that are assigned
AssignedDoors(rs) ==
    {rd \in (DOMAIN rs) \X Doors : Assigned(rs, rd[1], rd[2])}

\* a step of the spanning-tree phase that changes the maze links the first
\* free door of the room at the head of the queue to the first free door
\* of the first unvisited room, and visits that room
TreeLinkStep ==
    LET from == Head(queue)
        to == Least((0..(numRooms - 1)) \ visited)
        fromDoor == Least({d \in Doors : ~Assigned(rooms, from, d)})
        toDoor == Least({d \in Doors : ~Assigned(rooms, to, d)})
    IN  /\ visited' = visited \cup {to}
        /\ AssignedDoors(rooms') =
                AssignedDoors(rooms) \cup {<<from, fromDoor>>, <<to, toDoor>>}
        /\ rooms'[from].doors[fromDoor] = [toRoom |-> to, toDoor |-> toDoor]
        /\ rooms'[to].doors[toDoor] = [toRoom |-> from, toDoor |-> fromDoor]

(***************************************************************************)
(* C22: for every room_count >= 1 the spanning-tree phase never finds its  *)
(* queue empty while a room is unvisited and ends with all rooms visited,  *)
(* having made exactly room_count - 1 links, each from the lowest-index    *)
(* unassigned door of the dequeued room to the lowest-index unassigned     *)
(* door of the lowest-index unvisited room                                 *)
(***************************************************************************)
C22_SpanningTree ==
    /\ []((pc = "tree" /\ numRooms >= 1 /\ Cardinality(visited) < numRooms) =>
            queue # << >>)
    /\ []((pc = "augment" /\ i = 0 /\ numRooms >= 1) =>
            /\ visited = 0..(numRooms - 1)
            /\ Cardinality(AssignedDoors(rooms)) = 2 * (numRooms - 1))
    /\ [][(pc = "tree" /\ rooms' # rooms) => TreeLinkStep]_vars

C22_Witness ==
    /\ pc = "augment"
    /\ i = 0
    /\ numRooms >= 3
    /\ visited = 0..(numRooms - 1)
    /\ rooms[1].doors[1] = [toRoom |-> 2, toDoor |-> 0]

\* the target the closure loop draws next
DrawnTarget ==
    LET targetRoom == NextInt(rng, numRooms)
        targetDoor == NextInt(targetRoom.seed, NumDoors)
    IN  [toRoom |-> targetRoom.value, toDoor |-> targetDoor.value]

\* the closure loop assigns its door: forced onto itself after 20 failed
\* draws, otherwise to the target drawn now, which is unassigned
ClosureAssigns ==
    LET t == DrawnTarget
    IN  \/ /\ attempts = 20
            /\ rooms'[roomId].doors[door] = [toRoom |-> roomId, toDoor |-> door]
        \/ /\ attempts < 20
            /\ ~Assigned(rooms, t.toRoom, t.toDoor)
            /\ rooms'[roomId].doors[door] = t

\* the closure loop draws again: the target drawn now is assigned
ClosureRetries ==
    LET t == DrawnTarget
    IN  /\ attempts < 20
        /\ attempts' = attempts + 1
        /\ Assigned(rooms, t.toRoom, t.toDoor)

(***************************************************************************)
(* C23: generateBuilding terminates for every room_count >= 0 and every    *)
(* sequence of generator outputs; a door still unassigned in the closure   *)
(* loop is forced into a self-loop on that door only after 20 drawn        *)
(* targets were all already assigned, and is otherwise linked to the first *)
(* drawn target that is unassigned                                         *)
(***************************************************************************)
C23_ClosureTerminates ==
    /\ (pc = "alloc") ~> (pc \in {"built", "thrown"})
    /\ [](attempts <= 20)
    /\ [][(pc = "closure" /\ pc' = "closure" /\ rooms' # rooms) =>
                ClosureAssigns]_vars
    /\ [][(pc = "closure" /\ pc' = "closure" /\ rooms' = rooms
                /\ rng' # rng) => ClosureRetries]_vars

C23_Witness == pc = "closure" /\ attempts = 20 /\ numRooms >= 2

\* the line's two ends are one door
SameDoorLoop(e) == e.from.room = e.to.room /\ e.from.door = e.to.door

\* the arrow is drawn: getMarkerEnd returns the arrowhead
MarkerEnd(e) == e.status = "current" /\ e.isDirectional

(***************************************************************************)
(* C24: on the stepwise page the line of the 'current' edge that is not a  *)
(* same-door self-loop starts at the door taken in the room left and ends  *)
(* at the arrival door in the room entered, whichever way the edge list    *)
(* stores the link; only 'current' edges are directional                   *)
(***************************************************************************)
C24_CurrentEdgeDirection ==
    Drawn("steps") =>
        \A n \in DOMAIN conns.edges :
            LET e == conns.edges[n]
                step == conns.explorationSteps[conns.currentStepIndex + 1]
                left == step.previousState.roomId
                taken == step.previousState.doorTaken
                arrival == conns.building[left].doors[taken]
            IN  /\ e.isDirectional <=> e.status = "current"
                /\ MarkerEnd(e) <=> e.status = "current"
                /\ (e.status = "current" /\ ~SameDoorLoop(e)) =>
                        /\ conns.currentStepIndex >= 1
                        /\ e.from.at = <<left, taken>>
                        /\ e.to.at = <<step.currentState.roomId, arrival.toDoor>>
                        /\ arrival.toRoom = step.currentState.roomId

\* a current edge stored against the direction of travel
C24_Witness ==
    /\ Drawn("steps")
    /\ \E n \in DOMAIN conns.edges :
            LET e == conns.edges[n]
            IN  /\ e.status = "current"
                /\ ~SameDoorLoop(e)
                /\ e.from.room # e.to.room
                /\ e.from.at = <<e.to.room, e.to.door>>
                /\ e.to.at = <<e.from.room, e.from.door>>

\* a step of a drawn page that moves a room
Dragging ==
    /\ conns.outcome = "drawn"
    /\ roomPositions' # roomPositions

(***************************************************************************)
(* C25: dragging changes only coordinates: a mouse move changes the        *)
(* position of the room being dragged and of no other room, and of no room *)
(* when none is dragged; the edge list keeps the same endpoints and        *)
(* statuses, and the maze and the loaded steps stay as they were           *)
(***************************************************************************)
C25_DragMovesOnlyDraggedRoom ==
    [][Dragging =>
            /\ draggedRoom # Null
            /\ DOMAIN roomPositions' = DOMAIN roomPositions
            /\ \A r \in DOMAIN roomPositions :
                    r # draggedRoom => roomPositions'[r] = roomPositions[r]
            /\ conns'.edges = conns.edges
            /\ conns'.currentStepIndex = conns.currentStepIndex
            /\ rooms' = rooms
            /\ steps' = steps]_vars

\* a room of a walked maze has been dragged away from its grid position
C25_Witness ==
    /\ Drawn("steps")
    /\ draggedRoom # Null
    /\ Len(conns.explorationSteps) >= 2
    /\ \E n \in DOMAIN conns.edges : conns.edges[n].status = "current"
    /\ roomPositions[draggedRoom] # InitialPositions(conns.building)[draggedRoom]
    /\ \E r \in DOMAIN roomPositions : r # draggedRoom

(***************************************************************************)
(* C26: for any plan string the stepwise simulator returns one step per    *)
(* plan character plus an initial step; on every returned step stepIndex   *)
(* is the step's position in the returned sequence and totalSteps is the   *)
(* length of the returned sequence                                         *)
(***************************************************************************)
C26_StepPerCharacter ==
    (variant = "steps" /\ walkPc = "returned") =>
        /\ Len(steps) = Len(routePlan) + 1
        /\ \A k \in DOMAIN steps :
                /\ steps[k].stepIndex = k - 1
                /\ steps[k].totalSteps = Len(steps)

\* the steps are a walk on the maze: rooms exist and moves follow door links
IsWalkOn(building, explorationSteps) ==
    \A k \in DOMAIN explorationSteps :
        LET step == explorationSteps[k]
            from == step.previousState
        IN  /\ step.currentState.roomId \in DOMAIN building
            /\ from # NoState =>
                    /\ from.roomId \in DOMAIN building
                    /\ building[from.roomId].doors[from.doorTaken].toRoom
                            = step.currentState.roomId

(***************************************************************************)
(* C27: on the simulator page, after any sequence of UI operations (change *)
(* problem size, change seed, edit the plan text, load plan, navigate) the *)
(* loaded steps are a walk on the current maze: every room they mention is *)
(* a room of the current maze and every transition follows one of its door *)
(* links, so the visualization can tag its edges from them                 *)
(***************************************************************************)
C27_StepsWalkCurrentMaze ==
    pc = "built" =>
        /\ IsWalkOn(rooms, pageSteps)
        /\ ~MarkingThrows(rooms, pageSteps, pageIndex)

(***************************************************************************)
(* C28: on the simulator page, after any sequence of load-plan and         *)
(* navigation operations, 0 <= currentStepIndex <= steps.length - 1        *)
(* whenever steps are loaded and currentStepIndex = 0 while none are; a    *)
(* successful load resets the index to 0, and loading an empty or invalid  *)
(* plan changes neither the steps nor the index                            *)
(***************************************************************************)
C28_StepIndexInRange ==
    /\ [](IF Len(pageSteps) > 0
          THEN 0 <= pageIndex /\ pageIndex <= Len(pageSteps) - 1
          ELSE pageIndex = 0)
    /\ [][(walkPc = "running" /\ walkPc' = "idle") =>
                pageSteps' = steps /\ Len(pageSteps') >= 1 /\ pageIndex' = 0]_vars
    /\ [][(PageReady /\ ~(Len(Trim(pagePlan)) > 0 /\ DoorDigitsOnly(Trim(pagePlan))))
                => (walkPc' = "idle" /\ pageSteps' = pageSteps)]_vars
    /\ [][pageSteps' # pageSteps =>
                (walkPc = "running" /\ Len(routePlan) > 0
                    /\ DoorDigitsOnly(routePlan) /\ pageIndex' = 0)]_vars

\* the index after +10 inside a walk of more than ten steps
C28_Witness ==
    /\ PageReady
    /\ Len(pageSteps) > 11
    /\ pageIndex = 10
    /\ ~(Len(Trim(pagePlan)) > 0 /\ DoorDigitsOnly(Trim(pagePlan)))

\* exactly one of the result and a non-empty error is set
OneOfResultAndError ==
    (exploreResult # NoPayload) # (exploreError # "")

(***************************************************************************)
(* C29: on the explore page every submission sets loading to true, clears  *)
(* the previous result and error, and eventually sets loading to false,    *)
(* whether validation fails, the relay fails or it succeeds; when a        *)
(* submission has finished and none is in flight, exactly one of the       *)
(* result and a non-empty error is set                                     *)
(***************************************************************************)
C29_SubmissionSettles ==
    /\ exploreLoading ~> ~exploreLoading
    /\ [](explorePc = "idle" <=> ~exploreLoading)
    /\ [][(explorePc = "idle" /\ explorePc' # "idle") =>
                /\ exploreLoading'
                /\ exploreResult' = NoPayload
                /\ exploreError' = ""]_vars
    /\ [][(explorePc # "idle" /\ explorePc' = "idle") =>
                (~exploreLoading' /\ OneOfResultAndError')]_vars
    /\ [][(explorePc = "idle" /\ explorePc' = "idle") =>
                UNCHANGED <<exploreResult, exploreError>>]_vars

\* a submission that succeeded after one the relay failed
C29_Witness ==
    /\ explorePc = "idle"
    /\ relayPc[1] = "failed"
    /\ relayPc[2] = "returned"
    /\ exploreResult = returned[2]
    /\ exploreError = ""

\* the entries of the comma-separated text
Entries(text) == {SplitComma(text)[k] : k \in 1..Len(SplitComma(text))}

\* the text has no non-blank entry, or an entry that is not made of 0-5
Rejectable(text) ==
    \/ \A entry \in Entries(text) : Trim(entry) = << >>
    \/ \E entry \in Entries(text) :
            Trim(entry) # << >> /\ ~DoorDigitsOnly(Trim(entry))

\* the strings of a plans array
CharsOf(items) == [k \in 1..Len(items) |-> items[k].chars]

(***************************************************************************)
(* C30: the explore page calls the relay only with a non-empty list of     *)
(* trimmed plans that each match ^[0-5]+$; when the comma-separated input  *)
(* has no non-blank entry or any entry is invalid, the whole submission is *)
(* rejected with an error and the relay is not called; so the relay's own  *)
(* filter never drops or alters a plan sent by this page                   *)
(***************************************************************************)
C30_OnlyValidPlansSent ==
    /\ [](\A inv \in Inv :
            relayPc[inv] # "absent" =>
                LET items == data[inv].plans.items
                IN  /\ data[inv].plans.type = "array"
                    /\ Len(items) >= 1
                    /\ \A k \in 1..Len(items) :
                            /\ items[k].type = "string"
                            /\ Trim(items[k].chars) = items[k].chars
                            /\ Len(items[k].chars) >= 1
                            /\ DoorDigitsOnly(items[k].chars)
                    /\ FilterValid(items) = CharsOf(items)
                    /\ relayPc[inv] # "start" => validPlans[inv] = CharsOf(items))
    /\ [][explorePc = "validating" =>
                IF Rejectable(explorePlans)
                THEN /\ explorePc' = "idle"
                     /\ exploreError' # ""
                     /\ exploreResult' = NoPayload
                     /\ UNCHANGED <<relayPc, data, requests>>
                ELSE /\ explorePc' = "awaiting"
                     /\ relayPc'[exploreInv'] = "start"
                     /\ relayPc[exploreInv'] = "absent"
                     /\ CharsOf(data'[exploreInv'].plans.items)
                            = PlansArray(explorePlans)]_vars

\* two plans sent from a text with a blank before the first of them
C30_Witness ==
    /\ explorePc = "awaiting"
    /\ Head(explorePlans) = " "
    /\ Len(data[exploreInv].plans.items) = 2
    /\ relayPc[exploreInv] = "explore"
    /\ Len(validPlans[exploreInv]) = 2

====
